---- MODULE Spec2Model ----
\* A model of huuma-studio/ai: the tool invocation loop (callTool), the
\* adapters' batch response conversions and the Anthropic stream aggregator.
EXTENDS Integers, Sequences, FiniteSets, TLC

VARIABLES
  \* ---- callTool (src/src/tools/mod.ts) ----
  messages,     \* the array passed to the function callTool returns
  given,        \* ghost: the array's content at the moment of the call
  tools,        \* Tools.#tools: name -> Tool
  pc,           \* "idle" | "loop" | "done" | "rejected"
  calls,        \* per tool call: how far the loop got with it and how it ended
  results,      \* results: ToolResultContent[]
  fnCalls,      \* ghost: every invocation of a tool's #fn, with its argument
  ret,          \* the array the promise resolved with
  \* ---- batch response conversion (one of the three adapters) ----
  adapter,      \* which conversion is applied
  response,     \* the vendor response
  converted,    \* the Message[] the conversion returned
  resent,       \* the Content[] built from these messages for the next request
  \* ---- AnthropicModel.#streamIterator ----
  contentBlocks,    \* index -> block | Hole (a sparse JS array)
  toolArgsBuffers,  \* Map<number, string>
  nEvents,          \* events read from the stream so far
  nYielded,         \* snapshots yielded so far
  yielded,          \* the snapshot yielded last, as it was when yielded
  starts,           \* ghost: index -> content_block_start events received
  status,           \* the generator: "open" | "ended" | "failed"
  rejection,        \* the error the generator rejected with
  raised,           \* ghost: the error reading the event stream raised
  holding,          \* whether the consumer keeps the first snapshot it receives
  heldAt,           \* contents of the first snapshot yielded, as they were then
  heldNow,          \* contents of that snapshot as its holder reads them now
  heldLive,         \* positions where it holds the object contentBlocks holds
  \* ---- Gemini streamMessages and OllamaModel.stream ----
  chunkAdapter,     \* "gemini" | "ollama"
  nChunks,          \* chunks read from the vendor stream so far
  chunkYields,      \* results yielded so far
  chunkYielded,     \* the Message[] yielded last
  received,         \* ghost: the text and the tool-call names of all chunks read
  chunkStatus,      \* the generator: "open" | "ended" | "failed"
  chunkRejection,   \* the error the generator rejected with
  chunkRaised,      \* ghost: the error reading the chunk stream raised
  \* ---- Tools registry (src/src/tools/mod.ts) ----
  registry,         \* Tools.#tools: the Map's entries in insertion order
  registered,       \* ghost: every tool handed to the constructor or to add, in order
  lastCall,         \* the last operation on the registry and what it returned
  \* ---- anthropicToolsFrom / ollamaToolsFrom ----
  toolsArg,         \* the tools argument: Tool[]
  declared,         \* the vendor tool declarations returned
  \* ---- request building: AnthropicModel.generate, OllamaModel.generate ----
  wireAdapter,      \* which adapter builds the request
  conversation,     \* options.messages
  systemOption,     \* options.system
  request,          \* what is handed to the vendor client
  \* ---- cli tool (src/src/tools/cli/cli.ts) ----
  allowedCommands,  \* the allowedCommands option
  spawned,          \* the processes spawned: [command, args], in order
  cliCall,          \* the last call of the tool function and how it settled
  nCliCalls,        \* calls made so far
  \* ---- edit_file tool (src/src/tools/file/edit_file.ts) ----
  fileContent,      \* the content of the file at props.path
  edit,             \* the last call of the tool function and how it settled
  nEdits,           \* calls made so far
  \* ---- Workflow (src/src/workflow/mod.ts, part_013) ----
  wfImpl,           \* which of the two Workflow classes
  wfState,          \* #state
  wfStatus,         \* #status
  runs,             \* the invocations of #start.call and how each settled
  lastStart,        \* the last start call and how it was answered
  nStarts           \* start calls made so far

ctVars == <<messages, given, tools, pc, calls, results, fnCalls, ret>>
batchVars == <<adapter, response, converted, resent>>
streamVars ==
  <<contentBlocks, toolArgsBuffers, nEvents, nYielded, yielded, starts, status,
    rejection, raised, holding, heldAt, heldNow, heldLive>>
chunkVars ==
  <<chunkAdapter, nChunks, chunkYields, chunkYielded, received, chunkStatus,
    chunkRejection, chunkRaised>>
regVars == <<registry, registered, lastCall>>
declVars == <<toolsArg, declared>>
wireVars == <<wireAdapter, conversation, systemOption, request>>
cliVars == <<allowedCommands, spawned, cliCall, nCliCalls>>
fileVars == <<fileContent, edit, nEdits>>
wfVars == <<wfImpl, wfState, wfStatus, runs, lastStart, nStarts>>
hostVars == <<cliVars, fileVars, wfVars>>
vars ==
  <<ctVars, batchVars, streamVars, chunkVars, regVars, declVars, wireVars, hostVars>>

\* ------------------------------------------------------------------ bounds
MaxCalls == 2      \* tool calls in one model message
MaxBlocks == 3     \* content blocks / parts in one batch response
MaxIndex == 1      \* content block indices 0..MaxIndex in a stream
MaxEvents == 5     \* events read from one stream
MaxRegistered == 3 \* tools handed to one registry (constructor and add)
MaxMessages == 2   \* messages of one conversation handed to generate
MaxHeldEvents == 4 \* events read while a consumer keeps the first snapshot
MaxCliCalls == 2   \* calls of the cli tool
MaxEdits == 2      \* calls of the edit_file tool
MaxStarts == 3     \* start calls on one Workflow
MaxChunks == 3     \* chunks read from one Gemini or Ollama stream

\* sequences over S of length 0..n
RECURSIVE SeqsUpTo(_, _)
SeqsUpTo(S, n) ==
  IF n = 0 THEN {<<>>}
  ELSE LET shorter == SeqsUpTo(S, n - 1)
       IN  shorter \cup {Append(s, x) : s \in {t \in shorter : Len(t) = n - 1}, x \in S}

\* ------------------------------------------------------------ JS values
\* A JS value is a record; a string is [str |-> s], the object {error: m} is
\* [error |-> m].
Str(s) == [str |-> s]
None == [undefined |-> TRUE]

\* ------------------------------------------------- canonical message model
TextContent(t) == [text |-> t]
ToolCallContent(tc) == [toolCall |-> tc]
ToolResultContent(id, name, result) ==
  [toolResult |-> [id |-> id, name |-> name, result |-> result]]

IsToolCallContent(c) == "toolCall" \in DOMAIN c
IsToolResultContent(c) == "toolResult" \in DOMAIN c

\* the toolCall fields of the tool-call entries of contents, in order
ToolCallsOf(contents) ==
  LET tcs == SelectSeq(contents, IsToolCallContent)
  IN  [k \in 1..Len(tcs) |-> tcs[k].toolCall]

\* ===================================================================
\* Tool registry and invocation loop
\* ===================================================================

\* Schema.validate(props) -> {errors, value}: the validator library is outside
\* the repository; "bad" props fail, "raw" props are coerced.
ValidProps == {"raw"}
InvalidProps == {"bad"}
validate(props) ==
  IF props \in InvalidProps
    THEN [errors |-> <<"invalid">>, value |-> props]
    ELSE [errors |-> <<>>, value |-> "coerced"]

\* new ValidationException(errors)
ValidationException(errors) ==
  [isError |-> TRUE, message |-> "Validation failed", stringifiable |-> TRUE,
   json |-> "{}"]

\* What a tool function can do once invoked: return a value, throw an Error,
\* throw a value that is no Error and serialises, or throw one that
\* JSON.stringify refuses (a BigInt, a cyclic object).
FnReturns == {Str("out")}
FnThrows ==
  { [isError |-> TRUE, message |-> "boom", stringifiable |-> TRUE, json |-> "{}"],
    [isError |-> FALSE, message |-> "", stringifiable |-> TRUE, json |-> "{\"code\":1}"],
    [isError |-> FALSE, message |-> "", stringifiable |-> FALSE, json |-> ""] }

\* Tools.get(name)
Tools_get(t, name) ==
  IF name \in DOMAIN t
    THEN [found |-> TRUE, tool |-> t[name]]
    ELSE [found |-> FALSE,
          thrown |-> [isError |-> TRUE, message |-> "Tool " \o name \o " not found",
                      stringifiable |-> TRUE, json |-> "{}"]]

Tool_callMutantNoCheck(props) ==
  [invoked |-> TRUE, arg |-> validate(props).value]
\* Tool.call(props), up to the invocation of #fn
Tool_call(props) ==
  LET v == validate(props)
  IN  IF Len(v.errors) > 0
        THEN [invoked |-> FALSE, thrown |-> ValidationException(v.errors)]
        ELSE [invoked |-> TRUE, arg |-> v.value]

\* callTool's catch block: the value assigned to result, or the TypeError
\* JSON.stringify throws out of the catch block
catchBlock(error) ==
  IF error.isError
    THEN [caught |-> TRUE, result |-> [error |-> Str(error.message)]]
    ELSE IF error.stringifiable
      THEN [caught |-> TRUE, result |-> [error |-> Str(error.json)]]
      ELSE [caught |-> FALSE]

pushMutantFront(rs, toolCall, result) ==
  <<ToolResultContent(toolCall.id, toolCall.name, [output |-> result])>> \o rs
\* results.push({toolResult: {id, name, result: {output: result}}})
push(rs, toolCall, result) ==
  Append(rs, ToolResultContent(toolCall.id, toolCall.name, [output |-> result]))

popMutantInPlace(msgs) ==
  [message |-> msgs[Len(msgs)], messages |-> SubSeq(msgs, 1, Len(msgs) - 1)]
\* const message = [...messages].pop(): the last message, the array untouched
pop(msgs) == [message |-> msgs[Len(msgs)], messages |-> msgs]

\* const message: the last message of the array as it was passed in
message == pop(given).message
toolCalls == message.toolCalls

nextCallMutantParallel(k) == calls[k].phase = "pending"
\* the for..of loop reaches call k once the k-1 calls before it are pushed
nextCall(k) == calls[k].phase = "pending" /\ k = Len(results) + 1

\* ---- inputs
CallIds == {"c1", "c2"}
ToolCall ==
  [id : CallIds, name : {"echo"}, props : ValidProps \cup InvalidProps]
    \cup [id : CallIds, name : {"missing"}, props : ValidProps]

\* contents as an adapter builds them around a list of tool calls
contentsAround(tcs) ==
  <<TextContent("Let me check.")>> \o [k \in 1..Len(tcs) |-> ToolCallContent(tcs[k])]

\* model messages: toolCalls as the adapters set it (the tool calls of
\* contents), or set by hand next to contents holding at most one tool call
ModelMessages ==
  { [role |-> "model", contents |-> contentsAround(inContents), toolCalls |-> tcs] :
      tcs \in SeqsUpTo(ToolCall, MaxCalls),
      inContents \in SeqsUpTo(ToolCall, 1) }
  \cup
  { [role |-> "model", contents |-> contentsAround(tcs), toolCalls |-> tcs] :
      tcs \in SeqsUpTo(ToolCall, MaxCalls) }

UserMessage == [role |-> "user", contents |-> <<TextContent("What's the weather?")>>]

Registry == [n \in {"echo"} |-> [name |-> n]]

ctIdle ==
  /\ messages = <<>> /\ given = <<>> /\ tools = Registry /\ pc = "off"
  /\ calls = <<>> /\ results = <<>> /\ fnCalls = <<>> /\ ret = <<>>

batchIdle ==
  /\ adapter = "none" /\ response = <<>> /\ converted = [done |-> FALSE, messages |-> <<>>]
  /\ resent = [done |-> FALSE, contents |-> <<>>]

NoSnapshot == [role |-> "none", contents |-> <<>>, toolCalls |-> <<>>]

streamIdle ==
  /\ contentBlocks = <<>> /\ toolArgsBuffers = <<>> /\ nEvents = 0
  /\ nYielded = 0 /\ yielded = NoSnapshot /\ starts = <<>>
  /\ status = "off" /\ rejection = "" /\ raised = "" /\ holding = FALSE
  /\ heldAt = <<>> /\ heldNow = <<>> /\ heldLive = {}

chunkIdle ==
  /\ chunkAdapter = "none" /\ nChunks = 0 /\ chunkYields = 0 /\ chunkYielded = <<>>
  /\ received = [text |-> "", calls |-> <<>>] /\ chunkStatus = "off"
  /\ chunkRejection = "" /\ chunkRaised = ""

regIdle ==
  registry = <<>> /\ registered = <<>> /\ lastCall = [op |-> "none"]

declIdle ==
  toolsArg = <<>> /\ declared = [by |-> "off", tools |-> <<>>]

NoRequest == [sent |-> FALSE, messages |-> <<>>, system |-> "<undefined>"]

wireIdle ==
  /\ wireAdapter = "none" /\ conversation = <<>> /\ systemOption = "<undefined>"
  /\ request = NoRequest

NoCliCall == [command |-> "", args |-> <<>>, outcome |-> "none", text |-> ""]

cliIdle ==
  allowedCommands = <<>> /\ spawned = <<>> /\ cliCall = NoCliCall /\ nCliCalls = 0

NoEdit == [search |-> "", replace |-> "", before |-> "", outcome |-> "none", text |-> ""]

fileIdle == fileContent = "" /\ edit = NoEdit /\ nEdits = 0

NoStart == [outcome |-> "none", text |-> ""]

wfIdle ==
  /\ wfImpl = "none" /\ wfState = "<undefined>" /\ wfStatus = "Created"
  /\ runs = <<>> /\ lastStart = NoStart /\ nStarts = 0

hostIdle == cliIdle /\ fileIdle /\ wfIdle

InitCallTool ==
  /\ \E m \in ModelMessages : messages = <<UserMessage, m>>
  /\ given = messages
  /\ tools = Registry
  /\ pc = "idle"
  /\ calls = <<>>
  /\ results = <<>>
  /\ fnCalls = <<>>
  /\ ret = <<>>
  /\ batchIdle /\ streamIdle /\ chunkIdle /\ regIdle /\ declIdle /\ wireIdle /\ hostIdle

\* callTool(tools)(messages), up to the first loop iteration
Begin ==
  /\ pc = "idle"
  /\ messages' = pop(messages).messages
  /\ results' = <<>>
  /\ calls' = [k \in 1..Len(pop(messages).message.toolCalls) |->
                 [phase |-> "pending", outcome |-> "none", value |-> None]]
  /\ pc' = "loop"
  /\ UNCHANGED <<given, tools, fnCalls, ret, batchVars, streamVars, chunkVars, regVars, declVars, wireVars, hostVars>>

\* one loop iteration up to the await: tools.get, validate, the call of #fn.
\* A lookup or validation failure is caught and pushed in the same iteration.
StartCall(k) ==
  /\ pc = "loop"
  /\ k \in 1..Len(calls)
  /\ nextCall(k)
  /\ LET tc == toolCalls[k]
         got == Tools_get(tools, tc.name)
     IN  IF ~got.found
           THEN /\ calls' = [calls EXCEPT ![k] =
                      [phase |-> "recorded", outcome |-> "notfound", value |-> None]]
                /\ results' = push(results, tc, catchBlock(got.thrown).result)
                /\ UNCHANGED fnCalls
           ELSE LET c == Tool_call(tc.props)
                IN  IF ~c.invoked
                      THEN /\ calls' = [calls EXCEPT ![k] =
                                 [phase |-> "recorded", outcome |-> "invalid", value |-> None]]
                           /\ results' = push(results, tc, catchBlock(c.thrown).result)
                           /\ UNCHANGED fnCalls
                      ELSE /\ calls' = [calls EXCEPT ![k].phase = "running"]
                           /\ fnCalls' = Append(fnCalls, [call |-> k, arg |-> c.arg])
                           /\ UNCHANGED results
  /\ UNCHANGED <<messages, given, tools, pc, ret, batchVars, streamVars, chunkVars, regVars, declVars, wireVars, hostVars>>

\* the awaited #fn returns v: result = v, pushed
SettleReturn(k) ==
  /\ pc = "loop"
  /\ k \in 1..Len(calls)
  /\ calls[k].phase = "running"
  /\ \E v \in FnReturns :
       /\ calls' = [calls EXCEPT ![k] =
             [phase |-> "recorded", outcome |-> "returned", value |-> v]]
       /\ results' = push(results, toolCalls[k], v)
  /\ UNCHANGED <<messages, given, tools, pc, fnCalls, ret, batchVars, streamVars, chunkVars, regVars, declVars, wireVars, hostVars>>

\* the awaited #fn throws e: the catch block, then the push; or the catch
\* block itself throws and the promise of callTool rejects
SettleThrow(k) ==
  /\ pc = "loop"
  /\ k \in 1..Len(calls)
  /\ calls[k].phase = "running"
  /\ \E e \in FnThrows :
       LET c == catchBlock(e)
       IN  IF c.caught
             THEN /\ calls' = [calls EXCEPT ![k] =
                        [phase |-> "recorded", outcome |-> "threw", value |-> None]]
                  /\ results' = push(results, toolCalls[k], c.result)
                  /\ pc' = pc
             ELSE /\ calls' = [calls EXCEPT ![k] =
                        [phase |-> "aborted", outcome |-> "threw", value |-> None]]
                  /\ pc' = "rejected"
                  /\ UNCHANGED results
  /\ UNCHANGED <<messages, given, tools, fnCalls, ret, batchVars, streamVars, chunkVars, regVars, declVars, wireVars, hostVars>>

\* return [...messages, {role: "tool", contents: results}]
Return ==
  /\ pc = "loop"
  /\ \A k \in 1..Len(calls) : calls[k].phase = "recorded"
  /\ ret' = Append(messages, [role |-> "tool", contents |-> results])
  /\ pc' = "done"
  /\ UNCHANGED <<messages, given, tools, calls, results, fnCalls, batchVars, streamVars, chunkVars, regVars, declVars, wireVars, hostVars>>

NextCallTool ==
  \/ Begin
  \/ \E k \in 1..MaxCalls + 1 : StartCall(k)
  \/ \E k \in 1..MaxCalls + 1 : SettleReturn(k)
  \/ \E k \in 1..MaxCalls + 1 : SettleThrow(k)
  \/ Return

SpecCallTool == InitCallTool /\ [][NextCallTool]_vars

\* ------------------------------------------------------------ claims C1..C7

Failed(k) == calls[k].outcome \in {"notfound", "invalid", "threw"}
resultOf(k) == results[k].toolResult.result
Recorded == {k \in 1..Len(calls) : calls[k].phase = "recorded"}
fnCallsOf(k) == SelectSeq(fnCalls, LAMBDA c : c.call = k)

\* C1: every failed tool call yields a result whose result.error is set and
\* whose result.output is not; every call that succeeds yields result.output
\* equal to the tool's return value.
C1_FailureUnderError ==
  \A k \in Recorded :
    /\ Failed(k) =>
         "error" \in DOMAIN resultOf(k) /\ "output" \notin DOMAIN resultOf(k)
    /\ calls[k].outcome = "returned" =>
         "output" \in DOMAIN resultOf(k) /\ resultOf(k).output = calls[k].value

\* C2: callTool returns a conversation whose last message is a tool message
\* with one entry per tool call, the k-th entry carrying the id and the name
\* of the k-th call, whichever calls succeed or fail.
C2_ResultsMatchCalls ==
  pc = "done" =>
    LET last == ret[Len(ret)]
    IN  /\ last.role = "tool"
        /\ Len(last.contents) = Len(toolCalls)
        /\ \A k \in 1..Len(toolCalls) :
             /\ IsToolResultContent(last.contents[k])
             /\ last.contents[k].toolResult.id = toolCalls[k].id
             /\ last.contents[k].toolResult.name = toolCalls[k].name

C2_Witness ==
  /\ pc = "done"
  /\ Len(toolCalls) = 2
  /\ toolCalls[1].id # toolCalls[2].id
  /\ calls[1].outcome = "returned"
  /\ calls[2].outcome = "invalid"

\* C3: when validate reports errors the tool's function is not invoked for
\* that call and the call is recorded with the validation error; when it
\* reports none the function is invoked exactly once, with the value validate
\* returned and not the raw props.
C3_ValidateGuardsFn ==
  \A k \in 1..Len(calls) :
    (calls[k].phase # "pending" /\ toolCalls[k].name \in DOMAIN tools) =>
      LET v == validate(toolCalls[k].props)
      IN  IF Len(v.errors) > 0
            THEN /\ Len(fnCallsOf(k)) = 0
                 /\ calls[k].phase = "recorded"
                 /\ resultOf(k).output = [error |-> Str(ValidationException(v.errors).message)]
            ELSE /\ Len(fnCallsOf(k)) = 1
                 /\ fnCallsOf(k)[1].arg = v.value

C3_Witness ==
  /\ pc = "done"
  /\ Len(calls) = 2
  /\ calls[1].outcome = "invalid"
  /\ calls[2].outcome = "returned"
  /\ fnCalls = <<[call |-> 2, arg |-> "coerced"]>>
  /\ toolCalls[2].props # "coerced"

\* C4: the promise of callTool never rejects because of an individual call,
\* and when it resolves every call of the message has been processed.
C4_NeverRejects ==
  /\ pc # "rejected"
  /\ pc = "done" => Recorded = 1..Len(toolCalls)

\* C5: callTool returns the input messages unchanged and in order, followed by
\* exactly one new tool message, and never changes the input array.
C5_AppendOnly ==
  /\ messages = given
  /\ pc = "done" =>
       /\ Len(ret) = Len(given) + 1
       /\ SubSeq(ret, 1, Len(given)) = given
       /\ ret[Len(ret)].role = "tool"

C5_Witness ==
  /\ pc = "done"
  /\ Len(results) = 2
  /\ Len(ret) = 3

Count(s, Test(_)) == Len(SelectSeq(s, Test))

\* C6: the appended tool message holds exactly one ToolResultContent per
\* ToolCallContent of the model message's contents, matched by id, also for a
\* model message whose toolCalls list was built by hand.
C6_OneResultPerContentCall ==
  pc = "done" =>
    \A id \in CallIds :
      Count(ret[Len(ret)].contents,
            LAMBDA c : IsToolResultContent(c) /\ c.toolResult.id = id)
        = Count(message.contents,
                LAMBDA c : IsToolCallContent(c) /\ c.toolCall.id = id)

\* C7: the tool calls of one model turn are executed one at a time in
\* toolCalls order: call k+1 is not started before call k has settled and its
\* result has been recorded.
C7_Sequential ==
  /\ Cardinality({k \in 1..Len(calls) : calls[k].phase = "running"}) <= 1
  /\ \A k \in 1..Len(calls) :
       calls[k].phase # "pending" =>
         \A j \in 1..(k - 1) : calls[j].phase = "recorded" /\ j \in 1..Len(results)

C7_Witness ==
  /\ Len(calls) = 2
  /\ calls[1].outcome = "returned"
  /\ calls[2].phase = "running"
  /\ Len(fnCalls) = 2

\* ===================================================================
\* Batch response conversion: Anthropic modelResultFrom, Gemini messagesFrom,
\* Ollama modelResultFrom
\* ===================================================================

\* An optional value is a sequence of length 0 (absent) or 1; an optional
\* string is Undefined when absent.
Undefined == "<undefined>"
Falsy(s) == s \in {Undefined, ""}
Some(v) == <<v>>
Absent == <<>>

\* crypto.randomUUID(): the n-th identifier generated, fresh
randomUUID(n) == "uuid-" \o ToString(n)

ArgsObject == "{\"location\":\"Paris\"}"
EmptyObject == "{}"

\* ---- Anthropic: response.content
AnthropicBlock ==
  { [type |-> "text", text |-> "Let me check."],
    [type |-> "tool_use", id |-> "c1", name |-> "get_weather", input |-> ArgsObject],
    [type |-> "tool_use", id |-> "c2", name |-> "search", input |-> EmptyObject],
    [type |-> "thinking", thinking |-> "hm"] }

RECURSIVE anthropicBlocks(_, _)
anthropic_modelResultFromMutantNoList(resp) ==
  <<[role |-> "model",
     contents |-> anthropicBlocks(resp.content, [contents |-> <<>>, toolCalls |-> <<>>]).contents,
     toolCalls |-> <<>>]>>
\* modelResultFrom(response).messages
anthropic_modelResultFrom(resp) ==
  LET acc == anthropicBlocks(resp.content, [contents |-> <<>>, toolCalls |-> <<>>])
  IN  <<[role |-> "model", contents |-> acc.contents, toolCalls |-> acc.toolCalls]>>

\* for (const block of response.content)
anthropicBlocks(blocks, acc) ==
  IF blocks = <<>> THEN acc
  ELSE LET block == Head(blocks)
           toolCall == [id |-> block.id, name |-> block.name, props |-> block.input]
       IN  anthropicBlocks(Tail(blocks),
             IF block.type = "text"
               THEN [acc EXCEPT !.contents = Append(@, TextContent(block.text))]
             ELSE IF block.type = "tool_use"
               THEN [contents |-> Append(acc.contents, ToolCallContent(toolCall)),
                     toolCalls |-> Append(acc.toolCalls, toolCall)]
             ELSE acc)

\* ---- Gemini: candidates?: Candidate[]
FunctionCall(id, name, args) == [id |-> id, name |-> name, args |-> args]
GeminiPart ==
  { [text |-> "Let me check.", functionCall |-> Absent, thoughtSignature |-> Undefined],
    [text |-> "", functionCall |-> Absent, thoughtSignature |-> Undefined],
    [text |-> Undefined, functionCall |-> Some(FunctionCall("c1", "get_weather", ArgsObject)),
     thoughtSignature |-> "sig"],
    [text |-> Undefined, functionCall |-> Some(FunctionCall(Undefined, "search", Undefined)),
     thoughtSignature |-> Undefined],
    [text |-> Undefined, functionCall |-> Some(FunctionCall("c2", Undefined, ArgsObject)),
     thoughtSignature |-> Undefined],
    [text |-> "Hi", functionCall |-> Some(FunctionCall(Undefined, "search", EmptyObject)),
     thoughtSignature |-> Undefined] }

OtherCandidate ==
  [content |-> Some([parts |-> Some(<<[text |-> "second", functionCall |-> Absent,
                                       thoughtSignature |-> Undefined]>>)])]

GeminiCandidates ==
  {Absent, Some(<<>>), Some(<<[content |-> Absent]>>),
   Some(<<[content |-> Some([parts |-> Absent])]>>)}
  \cup { Some(<<[content |-> Some([parts |-> Some(ps)])]>> \o rest) :
           ps \in SeqsUpTo(GeminiPart, MaxBlocks), rest \in {<<>>, <<OtherCandidate>>} }

\* message.toolCalls.push(toolCall); message.contents.push({toolCall, reasoning})
geminiPushToolCallMutantListOnly(msg, toolCall, thoughtSignature) ==
  [msg EXCEPT !.toolCalls = Append(@, toolCall)]
geminiPushToolCall(msg, toolCall, thoughtSignature) ==
  [msg EXCEPT !.toolCalls = Append(@, toolCall),
              !.contents = Append(@, [toolCall |-> toolCall, reasoning |-> thoughtSignature])]

hasNameMutantAlways(functionCall) == TRUE
\* if (functionCall.name)
hasName(functionCall) == ~Falsy(functionCall.name)

\* for (const {text, functionCall, thoughtSignature} of parts); acc.uuids
\* counts the identifiers generated so far
RECURSIVE geminiParts(_, _)
geminiParts(parts, acc) ==
  IF parts = <<>> THEN acc
  ELSE LET part == Head(parts)
           a1 == IF ~Falsy(part.text)
                   THEN [acc EXCEPT !.message.contents = Append(@, TextContent(part.text))]
                   ELSE acc
           a2 == IF part.functionCall # Absent
                   THEN LET functionCall == part.functionCall[1]
                        IN  IF hasName(functionCall)
                              THEN LET fresh == Falsy(functionCall.id)
                                       toolCall ==
                                         [id |-> IF fresh THEN randomUUID(a1.uuids + 1)
                                                          ELSE functionCall.id,
                                          name |-> functionCall.name,
                                          props |-> IF Falsy(functionCall.args)
                                                      THEN EmptyObject
                                                      ELSE functionCall.args]
                                   IN  [message |-> geminiPushToolCall(a1.message, toolCall,
                                                                        part.thoughtSignature),
                                        uuids |-> IF fresh THEN a1.uuids + 1 ELSE a1.uuids]
                              ELSE a1
                   ELSE a1
       IN  geminiParts(Tail(parts), a2)

gemini_messagesFromMutantLastCandidate(candidates) ==
  IF candidates = Absent \/ Len(candidates[1]) = 0 THEN <<>>
  ELSE LET candidate == candidates[1][Len(candidates[1])]
           parts == IF candidate.content = Absent \/ candidate.content[1].parts = Absent
                      THEN <<>>
                      ELSE candidate.content[1].parts[1]
       IN  <<geminiParts(parts,
               [message |-> [role |-> "model", contents |-> <<>>, toolCalls |-> <<>>],
                uuids |-> 0]).message>>
\* messagesFrom(candidates)
gemini_messagesFrom(candidates) ==
  IF candidates = Absent \/ Len(candidates[1]) = 0 THEN <<>>
  ELSE LET candidate == candidates[1][1]
           parts == IF candidate.content = Absent \/ candidate.content[1].parts = Absent
                      THEN <<>>
                      ELSE candidate.content[1].parts[1]
       IN  <<geminiParts(parts,
               [message |-> [role |-> "model", contents |-> <<>>, toolCalls |-> <<>>],
                uuids |-> 0]).message>>

\* ---- Ollama: ChatResponse
OllamaToolCall ==
  { [function |-> [name |-> "get_weather", arguments |-> ArgsObject]],
    [function |-> [name |-> "search", arguments |-> EmptyObject]] }

OllamaResponse ==
  [message : [content : {"", "Let me check."},
              tool_calls : {Absent} \cup {Some(tcs) : tcs \in SeqsUpTo(OllamaToolCall, MaxBlocks)},
              thinking : {Undefined, "hm"}]]

\* for (const toolCall of response.message.tool_calls), the n-th call
RECURSIVE ollamaToolCalls(_, _, _)
ollamaToolCalls(tool_calls, n, acc) ==
  IF tool_calls = <<>> THEN acc
  ELSE LET toolCall == Head(tool_calls)
           tc == [id |-> randomUUID(n), name |-> toolCall.function.name,
                  props |-> toolCall.function.arguments]
       IN  ollamaToolCalls(Tail(tool_calls), n + 1,
             [contents |-> Append(acc.contents, ToolCallContent(tc)),
              toolCalls |-> Append(acc.toolCalls, tc)])

\* modelResultFrom(response).messages
ollama_modelResultFrom(resp) ==
  LET c0 == IF ~Falsy(resp.message.content)
              THEN <<TextContent(resp.message.content)>> ELSE <<>>
      acc == IF resp.message.tool_calls # Absent
               THEN ollamaToolCalls(resp.message.tool_calls[1], 1,
                                    [contents |-> c0, toolCalls |-> <<>>])
               ELSE [contents |-> c0, toolCalls |-> <<>>]
  IN  <<[role |-> "model", contents |-> acc.contents, toolCalls |-> acc.toolCalls,
         thinking |-> resp.message.thinking]>>

\* ---- Gemini: canonical contents back to Part[]
genAIPartFromMutantNoSignature(content) ==
  IF "text" \in DOMAIN content THEN [text |-> content.text]
  ELSE IF "toolCall" \in DOMAIN content
    THEN [functionCall |-> [id |-> content.toolCall.id, name |-> content.toolCall.name,
                            args |-> content.toolCall.props],
          thoughtSignature |-> Undefined]
    ELSE [functionResponse |-> [id |-> content.toolResult.id,
                                name |-> content.toolResult.name,
                                response |-> content.toolResult.result]]
\* genAIPartFrom(content) for an entry of a contents array
genAIPartFrom(content) ==
  IF "text" \in DOMAIN content THEN [text |-> content.text]
  ELSE IF "toolCall" \in DOMAIN content
    THEN [functionCall |-> [id |-> content.toolCall.id, name |-> content.toolCall.name,
                            args |-> content.toolCall.props],
          thoughtSignature |-> IF "reasoning" \in DOMAIN content THEN content.reasoning
                                                                 ELSE Undefined]
    ELSE [functionResponse |-> [id |-> content.toolResult.id,
                                name |-> content.toolResult.name,
                                response |-> content.toolResult.result]]

\* genAIContentFrom(message)
genAIContentFrom(m) ==
  [role |-> m.role, parts |-> [i \in 1..Len(m.contents) |-> genAIPartFrom(m.contents[i])]]

\* genAIContentsFrom(messages)
genAIContentsFrom(msgs) == [i \in 1..Len(msgs) |-> genAIContentFrom(msgs[i])]

InitBatch ==
  /\ \/ adapter = "anthropic"
        /\ \E blocks \in SeqsUpTo(AnthropicBlock, MaxBlocks) :
             response = [content |-> blocks]
     \/ adapter = "gemini"
        /\ \E cs \in GeminiCandidates : response = [candidates |-> cs]
     \/ adapter = "ollama"
        /\ response \in OllamaResponse
  /\ converted = [done |-> FALSE, messages |-> <<>>]
  /\ resent = [done |-> FALSE, contents |-> <<>>]
  /\ ctIdle /\ streamIdle /\ chunkIdle /\ regIdle /\ declIdle /\ wireIdle /\ hostIdle

AnthropicGenerate ==
  /\ adapter = "anthropic" /\ ~converted.done
  /\ converted' = [done |-> TRUE, messages |-> anthropic_modelResultFrom(response)]
  /\ UNCHANGED <<adapter, response, resent, ctVars, streamVars, chunkVars, regVars, declVars, wireVars, hostVars>>

GeminiGenerate ==
  /\ adapter = "gemini" /\ ~converted.done
  /\ converted' = [done |-> TRUE, messages |-> gemini_messagesFrom(response.candidates)]
  /\ UNCHANGED <<adapter, response, resent, ctVars, streamVars, chunkVars, regVars, declVars, wireVars, hostVars>>

OllamaGenerate ==
  /\ adapter = "ollama" /\ ~converted.done
  /\ converted' = [done |-> TRUE, messages |-> ollama_modelResultFrom(response)]
  /\ UNCHANGED <<adapter, response, resent, ctVars, streamVars, chunkVars, regVars, declVars, wireVars, hostVars>>

\* the next GoogleGenAIModel.generate: contents: genAIContentsFrom(messages),
\* the messages being those the last response was converted to
GeminiResend ==
  /\ adapter = "gemini" /\ converted.done /\ ~resent.done
  /\ resent' = [done |-> TRUE, contents |-> genAIContentsFrom(converted.messages)]
  /\ UNCHANGED <<adapter, response, converted, ctVars, streamVars, chunkVars, regVars,
                 declVars, wireVars, hostVars>>

NextBatch == AnthropicGenerate \/ GeminiGenerate \/ OllamaGenerate \/ GeminiResend

SpecBatch == InitBatch /\ [][NextBatch]_vars

\* ------------------------------------------------------------------ claim C8

\* C8: in every model message an adapter's batch conversion produces,
\* toolCalls is, in order, the list of the toolCall fields of the
\* ToolCallContent entries of contents.
C8_ToolCallsProjectContents ==
  converted.done =>
    \A k \in 1..Len(converted.messages) :
      LET m == converted.messages[k]
      IN  m.role = "model" => m.toolCalls = ToolCallsOf(m.contents)

\* a Gemini response whose parts interleave text and function calls, one part
\* carrying both
C8_Witness ==
  /\ adapter = "gemini" /\ converted.done
  /\ Len(converted.messages) = 1
  /\ Len(converted.messages[1].toolCalls) = 2
  /\ Len(converted.messages[1].contents) = 4
  /\ ~IsToolCallContent(converted.messages[1].contents[3])


\* ===================================================================
\* AnthropicModel.#streamIterator: the stream aggregator
\* ===================================================================

Indices == 0..MaxIndex

\* a hole of the sparse array contentBlocks; [...contentBlocks] copies it as
\* an undefined entry
Hole == [hole |-> TRUE]

\* input_json_delta fragments
JsonFragments == {"{\"location\":", "\"Paris\"}"}

\* JSON.parse(text): the parsed value, or a SyntaxError
JSON_parse(text) ==
  IF text \in {ArgsObject, EmptyObject}
    THEN [ok |-> TRUE, value |-> text]
    ELSE [ok |-> FALSE]

StartBlocks ==
  { [type |-> "text", text |-> ""],
    [type |-> "tool_use", id |-> "c1", name |-> "get_weather"],
    [type |-> "tool_use", id |-> "c2", name |-> "search"],
    [type |-> "thinking"] }

Deltas ==
  [type : {"text_delta"}, text : {"Hel", "lo"}]
    \cup [type : {"input_json_delta"}, partial_json : JsonFragments]
    \cup [type : {"thinking_delta"}]

StartEvents == [type : {"content_block_start"}, index : Indices, content_block : StartBlocks]
DeltaEvents == [type : {"content_block_delta"}, index : Indices, delta : Deltas]
OtherEvents == [type : {"message_start", "content_block_stop"}]

\* contentBlocks[index] = block, on a sparse array kept as a sequence whose
\* position i + 1 is index i
setBlock(blocks, index, block) ==
  [i \in 1..(IF index + 1 > Len(blocks) THEN index + 1 ELSE Len(blocks)) |->
     IF i = index + 1 THEN block
     ELSE IF i <= Len(blocks) THEN blocks[i] ELSE Hole]

\* contentBlocks[index]
getBlock(blocks, index) ==
  IF index + 1 <= Len(blocks) THEN blocks[index + 1] ELSE Hole

\* toolArgsBuffers.get(index) || ""
getBuffer(buffers, index) == IF index \in DOMAIN buffers THEN buffers[index] ELSE ""

\* toolArgsBuffers.set(index, text)
setBuffer(buffers, index, text) ==
  [i \in DOMAIN buffers \cup {index} |-> IF i = index THEN text ELSE buffers[i]]

IsTextContent(c) == "text" \in DOMAIN c

\* event.type === "content_block_start": the new contentBlocks
start(blocks, event) ==
  IF event.content_block.type = "text"
    THEN setBlock(blocks, event.index, TextContent(event.content_block.text))
  ELSE IF event.content_block.type = "tool_use"
    THEN setBlock(blocks, event.index,
           ToolCallContent([id |-> event.content_block.id,
                            name |-> event.content_block.name, props |-> EmptyObject]))
  ELSE blocks

textDeltaMutantReplace(block, event) == [block EXCEPT !.text = event.delta.text]
\* block.text += event.delta.text
textDelta(block, event) == [block EXCEPT !.text = @ \o event.delta.text]

jsonDeltaMutantReset(block, updated) ==
  IF JSON_parse(updated).ok
    THEN [block EXCEPT !.toolCall.props = JSON_parse(updated).value]
    ELSE [block EXCEPT !.toolCall.props = EmptyObject]
\* the input_json_delta branch: the block after the parse attempt
jsonDelta(block, updated) ==
  IF JSON_parse(updated).ok
    THEN [block EXCEPT !.toolCall.props = JSON_parse(updated).value]
    ELSE block

snapshotMutantStaleList(blocks) ==
  [role |-> "model",
   contents |-> [i \in 1..Len(blocks) |-> IF blocks[i] = Hole THEN None ELSE blocks[i]],
   toolCalls |-> yielded.toolCalls]
\* currentMessage: contents [...contentBlocks], toolCalls the filter and map
snapshot(blocks) ==
  [role |-> "model",
   contents |-> [i \in 1..Len(blocks) |-> IF blocks[i] = Hole THEN None ELSE blocks[i]],
   toolCalls |-> ToolCallsOf(SelectSeq(blocks, LAMBDA b : b # Hole))]

InitStream ==
  /\ contentBlocks = <<>>
  /\ toolArgsBuffers = <<>>
  /\ nEvents = 0
  /\ nYielded = 0
  /\ yielded = NoSnapshot
  /\ starts = [i \in Indices |-> 0]
  /\ status = "open"
  /\ rejection = ""
  /\ raised = ""
  /\ holding = FALSE
  /\ heldAt = <<>> /\ heldNow = <<>> /\ heldLive = {}
  /\ ctIdle /\ batchIdle /\ chunkIdle /\ regIdle /\ declIdle /\ wireIdle /\ hostIdle

\* The snapshot copies the array, not the blocks: contents[i] is the object
\* contentBlocks[i] until a content_block_start assigns a new one there
\* (replaced: the positions assigned in this iteration).
Hold(blocks, replaced) ==
  IF ~holding THEN UNCHANGED <<heldAt, heldNow, heldLive>>
  ELSE IF nYielded = 0
    THEN /\ heldAt' = snapshot(blocks).contents
         /\ heldNow' = snapshot(blocks).contents
         /\ heldLive' = {i \in 1..Len(blocks) : blocks[i] # Hole}
    ELSE /\ heldAt' = heldAt
         /\ heldLive' = heldLive \ replaced
         /\ heldNow' = [i \in 1..Len(heldNow) |->
                          IF i \in heldLive' THEN blocks[i] ELSE heldNow[i]]

Yield(blocks, replaced) ==
  /\ yielded' = snapshot(blocks)
  /\ nYielded' = nYielded + 1
  /\ Hold(blocks, replaced)

\* one iteration of for await, event.type === "content_block_start"
BlockStart ==
  /\ status = "open"
  /\ nEvents < MaxEvents
  /\ \E event \in StartEvents :
       /\ contentBlocks' = start(contentBlocks, event)
       /\ toolArgsBuffers' =
            IF event.content_block.type = "tool_use"
              THEN setBuffer(toolArgsBuffers, event.index, "")
              ELSE toolArgsBuffers
       /\ starts' = [starts EXCEPT ![event.index] = @ + 1]
       /\ Yield(contentBlocks',
                IF event.content_block.type \in {"text", "tool_use"}
                  THEN {event.index + 1} ELSE {})
  /\ nEvents' = nEvents + 1
  /\ UNCHANGED <<status, rejection, raised, holding, ctVars, batchVars, chunkVars,
                 regVars, declVars, wireVars, hostVars>>

\* the body of the content_block_delta branch and the yield, for one event
foldDelta(event) ==
  LET block == getBlock(contentBlocks, event.index)
  IN  IF block = Hole
        THEN \* if (!block) continue
             UNCHANGED <<contentBlocks, toolArgsBuffers, yielded, nYielded, heldAt, heldNow,
                         heldLive>>
      ELSE IF event.delta.type = "text_delta" /\ IsTextContent(block)
        THEN /\ contentBlocks' = setBlock(contentBlocks, event.index, textDelta(block, event))
             /\ UNCHANGED toolArgsBuffers
             /\ Yield(contentBlocks', {})
      ELSE IF event.delta.type = "input_json_delta" /\ IsToolCallContent(block)
        THEN LET updated == getBuffer(toolArgsBuffers, event.index) \o event.delta.partial_json
             IN  /\ toolArgsBuffers' = setBuffer(toolArgsBuffers, event.index, updated)
                 /\ contentBlocks' = setBlock(contentBlocks, event.index, jsonDelta(block, updated))
                 /\ Yield(contentBlocks', {})
      ELSE /\ UNCHANGED <<contentBlocks, toolArgsBuffers>>
           /\ Yield(contentBlocks, {})

\* one iteration of for await, event.type === "content_block_delta"
BlockDelta ==
  /\ status = "open"
  /\ nEvents < MaxEvents
  /\ \E event \in DeltaEvents : foldDelta(event)
  /\ nEvents' = nEvents + 1
  /\ UNCHANGED <<starts, status, rejection, raised, holding, ctVars, batchVars, chunkVars,
                 regVars, declVars, wireVars, hostVars>>

\* one iteration of for await, any other event
OtherEvent ==
  /\ status = "open"
  /\ nEvents < MaxEvents
  /\ \E event \in OtherEvents : Yield(contentBlocks, {})
  /\ nEvents' = nEvents + 1
  /\ UNCHANGED <<contentBlocks, toolArgsBuffers, starts, status, rejection,
                 raised, holding, ctVars, batchVars, chunkVars,
                 regVars, declVars, wireVars, hostVars>>

\* the stream is exhausted: for await ends and the generator returns
StreamEnd ==
  /\ status = "open"
  /\ status' = "ended"
  /\ UNCHANGED <<contentBlocks, toolArgsBuffers, nEvents, nYielded, yielded, starts,
                 rejection, raised, heldAt, heldNow, heldLive, holding, ctVars, batchVars, chunkVars,
                 regVars, declVars, wireVars, hostVars>>

TransportErrors == {"ECONNRESET", "overloaded_error"}

readErrorMutantSwallow(error) == [status |-> "ended", rejection |-> ""]
\* for await (const event of stream) with no try around it: an error raised
\* by the stream leaves the generator, which rejects with it
readError(error) == [status |-> "failed", rejection |-> error]

\* reading the next event fails: for await throws out of the generator
StreamFail ==
  /\ status = "open"
  /\ \E error \in TransportErrors :
       /\ raised' = error
       /\ status' = readError(error).status
       /\ rejection' = readError(error).rejection
  /\ UNCHANGED <<contentBlocks, toolArgsBuffers, nEvents, nYielded, yielded, starts,
                 heldAt, heldNow, heldLive, holding, ctVars, batchVars, chunkVars,
                 regVars, declVars, wireVars, hostVars>>

NextStream == BlockStart \/ BlockDelta \/ OtherEvent \/ StreamEnd \/ StreamFail

SpecStream == InitStream /\ [][NextStream]_vars

\* the same generator read by a consumer that keeps the first snapshot
InitHeld ==
  /\ contentBlocks = <<>>
  /\ toolArgsBuffers = <<>>
  /\ nEvents = 0
  /\ nYielded = 0
  /\ yielded = NoSnapshot
  /\ starts = [i \in Indices |-> 0]
  /\ status = "open"
  /\ rejection = ""
  /\ raised = ""
  /\ holding = TRUE
  /\ heldAt = <<>> /\ heldNow = <<>> /\ heldLive = {}
  /\ ctIdle /\ batchIdle /\ chunkIdle /\ regIdle /\ declIdle /\ wireIdle /\ hostIdle

NextHeld == nEvents < MaxHeldEvents /\ NextStream

SpecHeld == InitHeld /\ [][NextHeld]_vars

\* ----------------------------------------------------------- claims C9, C10

\* C9: in every snapshot the aggregator yields, toolCalls is, in order, the
\* list of the toolCall fields of the tool-call entries of contents.
C9_SnapshotToolCalls ==
  nYielded > 0 => yielded.toolCalls = ToolCallsOf(yielded.contents)

C9_Witness ==
  /\ Len(yielded.contents) = 2
  /\ IsTextContent(yielded.contents[1]) /\ yielded.contents[1].text = "Hel"
  /\ IsToolCallContent(yielded.contents[2])
  /\ yielded.contents[2].toolCall.props = ArgsObject

IsPrefix(a, b) == Len(a) <= Len(b) /\ SubSeq(b, 1, Len(a)) = a

\* snapshot later extends snapshot earlier: every text block keeps its text
\* as a prefix, every tool call keeps its id and name
Cumulative(earlier, later) ==
  \A i \in 1..Len(earlier.contents) :
    LET b == earlier.contents[i]
    IN  /\ IsTextContent(b) =>
             /\ i <= Len(later.contents)
             /\ IsTextContent(later.contents[i])
             /\ IsPrefix(b.text, later.contents[i].text)
        /\ IsToolCallContent(b) =>
             /\ i <= Len(later.contents)
             /\ IsToolCallContent(later.contents[i])
             /\ later.contents[i].toolCall.id = b.toolCall.id
             /\ later.contents[i].toolCall.name = b.toolCall.name

Restarted == \E i \in Indices : starts[i] > 1

\* C10 as stated: for any event sequence each snapshot extends the one
\* yielded before it (and so every earlier one).
C10_CumulativeAnySequence == [][Cumulative(yielded, yielded')]_vars

\* C10 as amended: each snapshot extends the one yielded before it, in any
\* event sequence that sends at most one content_block_start per index.
C10_CumulativeOneStartPerIndex ==
  [][~Restarted' => Cumulative(yielded, yielded')]_vars

C10_Witness ==
  /\ ~Restarted
  /\ nYielded >= 4
  /\ Len(yielded.contents) = 2
  /\ IsTextContent(yielded.contents[1]) /\ yielded.contents[1].text = "Hello"
  /\ IsToolCallContent(yielded.contents[2])

\* ------------------------------------------------------------------ claim C11

JsonDeltaEvents == {e \in DeltaEvents : e.delta.type = "input_json_delta"}
propsAt(blocks, index) == getBlock(blocks, index).toolCall.props

\* C11: an input_json_delta for a tool-call block at index i appends its
\* fragment to that index's buffer; if the whole buffer parses the block's
\* props become the parsed value, otherwise the props keep the value they had
\* before the delta; either way the fold goes on and yields.
C11_JsonDeltaFold ==
  [][\A event \in JsonDeltaEvents :
       ( /\ status = "open" /\ nEvents' = nEvents + 1 /\ starts' = starts
         /\ IsToolCallContent(getBlock(contentBlocks, event.index))
         /\ foldDelta(event) ) =>
           LET i == event.index
               buffer == getBuffer(toolArgsBuffers, i) \o event.delta.partial_json
           IN  /\ getBuffer(toolArgsBuffers', i) = buffer
               /\ IsToolCallContent(getBlock(contentBlocks', i))
               /\ propsAt(contentBlocks', i) =
                    (IF JSON_parse(buffer).ok THEN JSON_parse(buffer).value
                                              ELSE propsAt(contentBlocks, i))
               /\ status' = "open"
               /\ nYielded' = nYielded + 1]_vars

\* the buffer '{"location":"Paris"}' has parsed and a further fragment has made
\* it unparsable again: the props keep the parsed value
C11_Witness ==
  /\ IsToolCallContent(getBlock(contentBlocks, 0))
  /\ ~JSON_parse(getBuffer(toolArgsBuffers, 0)).ok
  /\ Len(getBuffer(toolArgsBuffers, 0)) > Len(ArgsObject)
  /\ propsAt(contentBlocks, 0) = ArgsObject

\* ------------------------------------------------------------------ claim C12

\* C12: the aggregator yields exactly one snapshot for each event it reads,
\* whatever the event is, so the snapshots yielded are as many as the events
\* read.
C12_OneSnapshotPerEvent == nYielded = nEvents

\* ===================================================================
\* Gemini streamMessages and OllamaModel.stream
\* ===================================================================

ChunkTexts == {"", "Hel", "lo"}
ChunkCalls == {<<>>, <<"get_weather">>}

\* a GenerateContentResponse chunk carrying a text delta and function calls
geminiChunk(text, names) ==
  [candidates |->
     Some(<<[content |-> Some([parts |-> Some(
        (IF text = "" THEN <<>>
         ELSE <<[text |-> text, functionCall |-> Absent, thoughtSignature |-> Undefined]>>)
        \o [k \in 1..Len(names) |->
              [text |-> Undefined,
               functionCall |-> Some(FunctionCall(Undefined, names[k], ArgsObject)),
               thoughtSignature |-> Undefined]])])]>>)]

\* a ChatResponse chunk carrying a text delta and tool calls
ollamaChunk(text, names) ==
  [message |->
     [content |-> text,
      tool_calls |-> IF names = <<>> THEN Absent
                     ELSE Some([k \in 1..Len(names) |->
                                  [function |-> [name |-> names[k], arguments |-> ArgsObject]]]),
      thinking |-> Undefined]]

InitChunks ==
  /\ chunkAdapter \in {"gemini", "ollama"}
  /\ nChunks = 0
  /\ chunkYields = 0
  /\ chunkYielded = <<>>
  /\ received = [text |-> "", calls |-> <<>>]
  /\ chunkStatus = "open"
  /\ chunkRejection = ""
  /\ chunkRaised = ""
  /\ ctIdle /\ batchIdle /\ streamIdle /\ regIdle /\ declIdle /\ wireIdle /\ hostIdle

\* streamMessages: one iteration of for await, yield modelResultFrom(modelId,
\* messagesFrom(chunk.candidates))
GeminiChunk ==
  /\ chunkAdapter = "gemini" /\ chunkStatus = "open"
  /\ nChunks < MaxChunks
  /\ \E text \in ChunkTexts, names \in ChunkCalls :
       /\ chunkYielded' = gemini_messagesFrom(geminiChunk(text, names).candidates)
       /\ received' = [text |-> received.text \o text, calls |-> received.calls \o names]
  /\ nChunks' = nChunks + 1
  /\ chunkYields' = chunkYields + 1
  /\ UNCHANGED <<chunkAdapter, chunkStatus, chunkRejection, chunkRaised, ctVars, batchVars, streamVars, regVars, declVars, wireVars, hostVars>>

\* OllamaModel.stream: one iteration of for await, yield modelResultFrom(chunk)
OllamaChunk ==
  /\ chunkAdapter = "ollama" /\ chunkStatus = "open"
  /\ nChunks < MaxChunks
  /\ \E text \in ChunkTexts, names \in ChunkCalls :
       /\ chunkYielded' = ollama_modelResultFrom(ollamaChunk(text, names))
       /\ received' = [text |-> received.text \o text, calls |-> received.calls \o names]
  /\ nChunks' = nChunks + 1
  /\ chunkYields' = chunkYields + 1
  /\ UNCHANGED <<chunkAdapter, chunkStatus, chunkRejection, chunkRaised, ctVars, batchVars, streamVars, regVars, declVars, wireVars, hostVars>>

\* the vendor stream is exhausted: the generator returns
ChunkStreamEnd ==
  /\ chunkStatus = "open"
  /\ chunkStatus' = "ended"
  /\ UNCHANGED <<chunkAdapter, nChunks, chunkYields, chunkYielded, received,
                 chunkRejection, chunkRaised, ctVars, batchVars, streamVars, regVars, declVars, wireVars, hostVars>>

\* reading the next chunk fails: for await throws out of the generator
ChunkStreamFail ==
  /\ chunkStatus = "open"
  /\ \E error \in TransportErrors :
       /\ chunkRaised' = error
       /\ chunkStatus' = readError(error).status
       /\ chunkRejection' = readError(error).rejection
  /\ UNCHANGED <<chunkAdapter, nChunks, chunkYields, chunkYielded, received,
                 ctVars, batchVars, streamVars, regVars, declVars, wireVars, hostVars>>

NextChunks == GeminiChunk \/ OllamaChunk \/ ChunkStreamEnd \/ ChunkStreamFail

SpecChunks == InitChunks /\ [][NextChunks]_vars

\* ------------------------------------------------------------------ claim C13

RECURSIVE textOf(_)
\* the texts of the TextContent entries of contents, concatenated
textOf(contents) ==
  IF contents = <<>> THEN ""
  ELSE (IF IsTextContent(Head(contents)) THEN Head(contents).text ELSE "")
         \o textOf(Tail(contents))

yieldedText == IF chunkYielded = <<>> THEN "" ELSE textOf(chunkYielded[1].contents)
yieldedCalls ==
  IF chunkYielded = <<>> THEN <<>>
  ELSE [k \in 1..Len(chunkYielded[1].toolCalls) |-> chunkYielded[1].toolCalls[k].name]

\* C13: the message yielded for the k-th chunk of a Gemini or Ollama stream
\* holds all the text and all the tool calls received in chunks 1..k.
C13_ChunkYieldIsCumulative ==
  chunkYields > 0 => yieldedText = received.text /\ yieldedCalls = received.calls

\* ------------------------------------------------------------------ claim C14

\* C14: every entry of contents in every snapshot the Anthropic aggregator
\* yields is a TextContent or a ToolCallContent, never an undefined entry.
C14_NoUndefinedEntry ==
  \A i \in 1..Len(yielded.contents) :
    IsTextContent(yielded.contents[i]) \/ IsToolCallContent(yielded.contents[i])

\* ------------------------------------------------------------------ claim C15

\* one stream of any of the three adapters
InitStreams ==
  \/ InitStream
  \/ InitChunks

NextStreams == NextStream \/ NextChunks

SpecStreams == InitStreams /\ [][NextStreams]_vars

\* C15: when reading the event or chunk sequence fails, the generator has
\* yielded what the fold yielded for the events read before, rejects with the
\* error the read raised, and yields nothing afterwards.
C15_ReadFailurePropagates ==
  [][ /\ (raised = "" /\ raised' # "") =>
           /\ status' = "failed" /\ rejection' = raised'
           /\ nYielded' = nYielded /\ yielded' = yielded
      /\ (chunkRaised = "" /\ chunkRaised' # "") =>
           /\ chunkStatus' = "failed" /\ chunkRejection' = chunkRaised'
           /\ chunkYields' = chunkYields /\ chunkYielded' = chunkYielded
      /\ (raised # "" \/ chunkRaised # "") =>
           /\ nYielded' = nYielded /\ yielded' = yielded
           /\ chunkYields' = chunkYields /\ chunkYielded' = chunkYielded
           /\ rejection' = rejection /\ chunkRejection' = chunkRejection ]_vars

C15_Witness ==
  /\ status = "failed"
  /\ rejection = "ECONNRESET"
  /\ nEvents = 3 /\ nYielded = 3
  /\ Len(yielded.contents) = 1
  /\ IsTextContent(yielded.contents[1]) /\ yielded.contents[1].text = "Hello"

\* ---------------------------------------------------------------------------
\* Tools registry (src/src/tools/mod.ts:79-101)
\* ---------------------------------------------------------------------------

ToolNames == {"echo", "search"}

\* Tool objects; the description tells two tools of one name apart
ToolSet == { [name |-> n, description |-> d] : n \in ToolNames, d \in {"first", "second"} }

Map_has(entries, key) == \E i \in 1..Len(entries) : entries[i].key = key

\* Map.prototype.set: an existing key keeps its position and takes the value
Map_set(entries, key, value) ==
  IF Map_has(entries, key)
    THEN [i \in 1..Len(entries) |->
            IF entries[i].key = key THEN [key |-> key, value |-> value] ELSE entries[i]]
    ELSE Append(entries, [key |-> key, value |-> value])

\* new Map(pairs)
RECURSIVE Map_new(_)
Map_new(pairs) ==
  IF pairs = <<>> THEN <<>>
  ELSE LET last == pairs[Len(pairs)]
       IN  Map_set(Map_new(SubSeq(pairs, 1, Len(pairs) - 1)), last.key, last.value)

\* the Map as the lookup Map.prototype.get performs
Map_lookup(entries) ==
  [n \in {entries[i].key : i \in 1..Len(entries)} |->
     (CHOOSE e \in {entries[i] : i \in 1..Len(entries)} : e.key = n).value]

\* new Tools(tools)
Tools_new(list) == Map_new([i \in 1..Len(list) |-> [key |-> list[i].name, value |-> list[i]]])

Tools_addMutantKeepFirst(m, tool) ==
  IF Map_has(m, tool.name) THEN m ELSE Map_set(m, tool.name, tool)
\* Tools.add(tool)
Tools_add(m, tool) == Map_set(m, tool.name, tool)

\* Tools.all()
Tools_all(m) == [i \in 1..Len(m) |-> m[i].value]

InitTools ==
  /\ \E list \in SeqsUpTo(ToolSet, MaxRegistered) :
       /\ registry = Tools_new(list)
       /\ registered = list
  /\ lastCall = [op |-> "new"]
  /\ ctIdle /\ batchIdle /\ streamIdle /\ chunkIdle /\ declIdle /\ wireIdle /\ hostIdle

Add ==
  /\ lastCall.op # "none"
  /\ Len(registered) < MaxRegistered
  /\ \E tool \in ToolSet :
       /\ registry' = Tools_add(registry, tool)
       /\ registered' = Append(registered, tool)
  /\ lastCall' = [op |-> "add"]
  /\ UNCHANGED <<ctVars, batchVars, streamVars, chunkVars,
                 declVars, wireVars, hostVars>>

Get ==
  /\ lastCall.op # "none"
  /\ \E name \in ToolNames \cup {"missing"} :
       lastCall' = [op |-> "get", name |-> name,
                    returned |-> Tools_get(Map_lookup(registry), name)]
  /\ UNCHANGED <<registry, registered, ctVars, batchVars, streamVars, chunkVars,
                 declVars, wireVars, hostVars>>

All ==
  /\ lastCall.op # "none"
  /\ lastCall' = [op |-> "all", list |-> Tools_all(registry)]
  /\ UNCHANGED <<registry, registered, ctVars, batchVars, streamVars, chunkVars,
                 declVars, wireVars, hostVars>>

NextTools == Add \/ Get \/ All

SpecTools == InitTools /\ [][NextTools]_vars

\* ------------------------------------------------------------------ claim C16

registeredNames == {registered[i].name : i \in 1..Len(registered)}

mostRecent(name) ==
  registered[CHOOSE i \in 1..Len(registered) :
               /\ registered[i].name = name
               /\ \A j \in (i + 1)..Len(registered) : registered[j].name # name]

getIsMostRecent ==
  lastCall.op = "get" =>
    IF lastCall.name \in registeredNames
      THEN /\ lastCall.returned.found
           /\ lastCall.returned.tool = mostRecent(lastCall.name)
      ELSE /\ ~lastCall.returned.found
           /\ lastCall.returned.thrown.isError
           /\ lastCall.returned.thrown.message = "Tool " \o lastCall.name \o " not found"

allIsOnePerName ==
  lastCall.op = "all" =>
    /\ Len(lastCall.list) = Cardinality(registeredNames)
    /\ \A name \in registeredNames :
         \E i \in 1..Len(lastCall.list) : lastCall.list[i] = mostRecent(name)

\* C16: after any sequence of construction and add, get(name) returns the
\* tool registered last under that name and all() holds exactly one tool per
\* registered name; get of a name never registered throws the not-found error
\* and leaves the registry as it was.
C16_RegistryLastWins ==
  [][ /\ getIsMostRecent'
      /\ allIsOnePerName'
      /\ lastCall'.op = "get" => registry' = registry ]_vars

C16_Witness ==
  /\ lastCall.op = "get"
  /\ lastCall.returned.found
  /\ \E i \in 1..Len(registered) :
       /\ registered[i].name = lastCall.name
       /\ registered[i] # lastCall.returned.tool

\* ------------------------------------------------------------------ claim C17

\* the parts of the first candidate of a Gemini response
firstParts(candidates) ==
  LET candidate == candidates[1][1]
  IN  IF candidate.content = Absent \/ candidate.content[1].parts = Absent
        THEN <<>>
        ELSE candidate.content[1].parts[1]

namedCall(part) == part.functionCall # Absent /\ ~Falsy(part.functionCall[1].name)

\* what one part stands for in a message: its text, then its function call
partLabels(part) ==
  (IF ~Falsy(part.text) THEN <<[text |-> part.text]>> ELSE <<>>)
  \o (IF namedCall(part) THEN <<[call |-> part.functionCall[1].name]>> ELSE <<>>)

RECURSIVE partsLabels(_)
partsLabels(parts) ==
  IF parts = <<>> THEN <<>> ELSE partLabels(Head(parts)) \o partsLabels(Tail(parts))

contentLabels(contents) ==
  [i \in 1..Len(contents) |->
     IF IsToolCallContent(contents[i]) THEN [call |-> contents[i].toolCall.name]
                                       ELSE [text |-> contents[i].text]]

\* C17: Gemini messagesFrom returns no message when candidates is absent or
\* empty, and otherwise exactly one model message whose contents come from the
\* parts of candidates[0] alone, in their order.
C17_FirstCandidateOnly ==
  (adapter = "gemini" /\ converted.done) =>
    IF response.candidates = Absent \/ response.candidates[1] = <<>>
      THEN converted.messages = <<>>
      ELSE /\ Len(converted.messages) = 1
           /\ converted.messages[1].role = "model"
           /\ contentLabels(converted.messages[1].contents) =
                partsLabels(firstParts(response.candidates))

C17_Witness ==
  /\ adapter = "gemini" /\ converted.done
  /\ response.candidates # Absent
  /\ Len(response.candidates[1]) = 2
  /\ Len(converted.messages) = 1
  /\ Len(converted.messages[1].contents) = 3

\* ------------------------------------------------------------------ claim C18

CountParts(parts, P(_)) == Cardinality({i \in 1..Len(parts) : P(parts[i])})

hasText(part) == ~Falsy(part.text)

namelessCall(part) == part.functionCall # Absent /\ Falsy(part.functionCall[1].name)

\* C18: a Gemini function-call part without a name adds nothing to contents
\* or toolCalls and raises no error, and every other part is still converted.
C18_NamelessCallSkipped ==
  (adapter = "gemini" /\ converted.done
     /\ response.candidates # Absent /\ response.candidates[1] # <<>>) =>
    LET parts == firstParts(response.candidates)
        m == converted.messages[1]
    IN  /\ Len(converted.messages) = 1
        /\ Len(m.toolCalls) = CountParts(parts, namedCall)
        /\ Len(m.contents) = CountParts(parts, hasText) + CountParts(parts, namedCall)
        /\ \A i \in 1..Len(m.toolCalls) : ~Falsy(m.toolCalls[i].name)
        /\ \A i \in 1..Len(m.contents) :
             IsToolCallContent(m.contents[i]) => ~Falsy(m.contents[i].toolCall.name)

C18_Witness ==
  /\ adapter = "gemini" /\ converted.done
  /\ response.candidates # Absent /\ response.candidates[1] # <<>>
  /\ LET parts == firstParts(response.candidates)
     IN  /\ Len(parts) = 3
         /\ namelessCall(parts[2])
         /\ hasText(parts[1]) /\ namedCall(parts[3])
  /\ Len(converted.messages[1].contents) = 2
  /\ Len(converted.messages[1].toolCalls) = 1

\* ---------------------------------------------------------------------------
\* anthropicToolsFrom (part_003:96-102) and ollamaToolsFrom
\* (src/models/ollama/mod.ts:230-239)
\* ---------------------------------------------------------------------------

\* JSON Schemas as tool.input.jsonSchema() returns them
JsonSchemas ==
  { "{\"type\":\"object\",\"properties\":{\"location\":{\"type\":\"string\"}},\"required\":[\"location\"]}",
    "{\"type\":\"object\",\"properties\":{}}" }

\* Tool objects with their input schema
SchemaTools ==
  { [name |-> n, description |-> "Runs " \o n, input |-> [schema |-> js]] :
      n \in ToolNames, js \in JsonSchemas }

\* tool.input.jsonSchema()
jsonSchema(input) == input.schema

anthropicToolsFromMutantNoDescription(list) ==
  [i \in 1..Len(list) |->
     [name |-> list[i].name,
      description |-> "",
      input_schema |-> jsonSchema(list[i].input)]]
\* anthropicToolsFrom(tools)
anthropicToolsFrom(list) ==
  [i \in 1..Len(list) |->
     [name |-> list[i].name,
      description |-> list[i].description,
      input_schema |-> jsonSchema(list[i].input)]]

\* ollamaToolsFrom(tools)
ollamaToolsFrom(list) ==
  [i \in 1..Len(list) |->
     [type |-> "function",
      function |-> [name |-> list[i].name,
                    description |-> list[i].description,
                    parameters |-> jsonSchema(list[i].input)]]]

InitToolsFrom ==
  /\ toolsArg \in SeqsUpTo(SchemaTools, MaxRegistered)
  /\ declared = [by |-> "none", tools |-> <<>>]
  /\ ctIdle /\ batchIdle /\ streamIdle /\ chunkIdle /\ regIdle /\ wireIdle /\ hostIdle

AnthropicToolsFrom ==
  /\ declared.by = "none"
  /\ declared' = [by |-> "anthropic", tools |-> anthropicToolsFrom(toolsArg)]
  /\ UNCHANGED <<toolsArg, ctVars, batchVars, streamVars, chunkVars, regVars, wireVars, hostVars>>

OllamaToolsFrom ==
  /\ declared.by = "none"
  /\ declared' = [by |-> "ollama", tools |-> ollamaToolsFrom(toolsArg)]
  /\ UNCHANGED <<toolsArg, ctVars, batchVars, streamVars, chunkVars, regVars, wireVars, hostVars>>

NextToolsFrom == AnthropicToolsFrom \/ OllamaToolsFrom

SpecToolsFrom == InitToolsFrom /\ [][NextToolsFrom]_vars

\* ------------------------------------------------------------------ claim C20

\* C20: anthropicToolsFrom and ollamaToolsFrom return one declaration per
\* tool, in the order given, with the tool's name and description and with
\* tool.input.jsonSchema() as input_schema, respectively function.parameters.
C20_DeclarationPerTool ==
  /\ declared.by \in {"anthropic", "ollama"} => Len(declared.tools) = Len(toolsArg)
  /\ declared.by = "anthropic" =>
       \A i \in 1..Len(toolsArg) :
         /\ declared.tools[i].name = toolsArg[i].name
         /\ declared.tools[i].description = toolsArg[i].description
         /\ declared.tools[i].input_schema = jsonSchema(toolsArg[i].input)
  /\ declared.by = "ollama" =>
       \A i \in 1..Len(toolsArg) :
         /\ declared.tools[i].function.name = toolsArg[i].name
         /\ declared.tools[i].function.description = toolsArg[i].description
         /\ declared.tools[i].function.parameters = jsonSchema(toolsArg[i].input)

C20_Witness ==
  /\ declared.by = "anthropic"
  /\ Len(toolsArg) = 3
  /\ toolsArg[1].name # toolsArg[2].name
  /\ toolsArg[2].input # toolsArg[3].input
  /\ Len(declared.tools) = 3

\* ------------------------------------------------------------------ claim C19

\* C19: in every model message an adapter's response conversion produces, the
\* ids of the tool calls are pairwise distinct.
C19_DistinctIds ==
  converted.done =>
    \A k \in 1..Len(converted.messages) :
      LET tcs == converted.messages[k].toolCalls
      IN  \A i, j \in 1..Len(tcs) : i # j => tcs[i].id # tcs[j].id

\* the part of C19 the code provides: the ids it generates itself are distinct
\* from each other and from the ids the vendor supplied
generatedId(id) == Len(id) > 5 /\ SubSeq(id, 1, 5) = "uuid-"

GeneratedIdsDistinct ==
  converted.done =>
    \A k \in 1..Len(converted.messages) :
      LET tcs == converted.messages[k].toolCalls
      IN  \A i, j \in 1..Len(tcs) :
            (i # j /\ generatedId(tcs[i].id)) => tcs[i].id # tcs[j].id

\* ---------------------------------------------------------------------------
\* Request building: anthropicMessagesFrom (part_003:117-190),
\* AnthropicModel.generate (part_003:245-261), ollamaMessagesFrom and
\* OllamaModel.generate (src/models/ollama/mod.ts:108-130, 241-306)
\* ---------------------------------------------------------------------------

\* ---- JS values held by result.output and result.error: a string is Str(s),
\* an object literal is held by its JSON text, {error: m} is [error |-> m]
Obj(json) == [json |-> json]

typeofString(v) == "str" \in DOMAIN v

\* if (v): undefined and the empty string are falsy, objects are truthy
Truthy(v) == v # None /\ v # Str("")

\* String(v)
String(v) ==
  IF typeofString(v) THEN v.str
  ELSE IF v = None THEN "undefined"
  ELSE "[object Object]"

\* JSON.stringify(v); undefined for undefined
RECURSIVE JSON_stringify(_)
JSON_stringify(v) ==
  IF typeofString(v) THEN "\"" \o v.str \o "\""
  ELSE IF v = None THEN Undefined
  ELSE IF "json" \in DOMAIN v THEN v.json
  ELSE "{\"error\":" \o JSON_stringify(v.error) \o "}"

\* result.error and result.output, undefined when the property is missing
errorOf(result) == IF "error" \in DOMAIN result THEN result.error ELSE None
outputOf(result) == IF "output" \in DOMAIN result THEN result.output ELSE None

\* ---- canonical messages; a message whose contents is a string holds it
\* under contentsString instead of contents
StringMessage(role, text) == [role |-> role, contentsString |-> text]
ArrayMessage(role, contents) == [role |-> role, contents |-> contents]
contentsIsString(m) == "contentsString" \in DOMAIN m

WireResults ==
  { [output |-> Str("sunny")],
    [output |-> Obj("{\"hits\":3}")],
    [error |-> Str("boom")],
    [error |-> Obj("{\"code\":1}"), output |-> Str("partial")],
    [output |-> [error |-> Str("Tool missing not found")]] }

WireToolContents ==
  { <<>> }
  \cup { <<ToolResultContent("c1", "get_weather", r)>> : r \in WireResults }
  \cup { <<ToolResultContent("c1", "get_weather", [output |-> Str("sunny")]),
           ToolResultContent("c2", "search", [error |-> Str("boom")])>>,
         <<ToolCallContent([id |-> "c1", name |-> "get_weather", props |-> ArgsObject]),
           ToolResultContent("c1", "get_weather", [output |-> Str("sunny")])>> }

WireModelContents ==
  { <<TextContent("Let me check."),
      [toolCall |-> [id |-> "c1", name |-> "get_weather", props |-> ArgsObject]]>>,
    <<TextContent("It is "), TextContent("sunny.")>> }

WireMessages ==
  { StringMessage("system", "Answer in French."),
    ArrayMessage("system", <<TextContent("Be "), TextContent("terse.")>>),
    StringMessage("user", "What's the weather?"),
    ArrayMessage("user", <<TextContent("In "), TextContent("Paris?")>>) }
  \cup { [role |-> "model", contents |-> c, toolCalls |-> ToolCallsOf(c)] :
           c \in WireModelContents }
  \cup { ArrayMessage("tool", c) : c \in WireToolContents }

\* ---- Anthropic
anthropicUserTurn(m) ==
  IF contentsIsString(m)
    THEN <<[role |-> "user", contentString |-> m.contentsString]>>
    ELSE <<[role |-> "user",
            content |-> [i \in 1..Len(m.contents) |->
                           [type |-> "text", text |-> m.contents[i].text]]]>>

anthropicModelBlock(c) ==
  IF "text" \in DOMAIN c THEN <<[type |-> "text", text |-> c.text]>>
  ELSE IF "toolCall" \in DOMAIN c
    THEN <<[type |-> "tool_use", id |-> c.toolCall.id, name |-> c.toolCall.name,
            input |-> c.toolCall.props]>>
    ELSE <<>>

\* the tool_result block of one entry of a tool message
anthropicToolResultBlock(c) ==
  IF "toolResult" \in DOMAIN c
    THEN LET id == c.toolResult.id
             result == c.toolResult.result
         IN  IF Truthy(errorOf(result))
               THEN <<[type |-> "tool_result", tool_use_id |-> id,
                       content |-> String(errorOf(result)), is_error |-> TRUE]>>
               ELSE <<[type |-> "tool_result", tool_use_id |-> id,
                       content |-> IF typeofString(outputOf(result))
                                     THEN outputOf(result).str
                                     ELSE JSON_stringify(outputOf(result))]>>
    ELSE <<>>

RECURSIVE flatten(_)
flatten(seqs) == IF seqs = <<>> THEN <<>> ELSE Head(seqs) \o flatten(Tail(seqs))

\* what a loop that pushes Op(item) entries for each item builds
flatMap(items, Op(_)) == flatten([i \in 1..Len(items) |-> Op(items[i])])

anthropicToolTurnMutantKeepEmpty(m) ==
  <<[role |-> "user", content |-> flatMap(m.contents, anthropicToolResultBlock)]>>
anthropicToolTurn(m) ==
  LET content == flatMap(m.contents, anthropicToolResultBlock)
  IN  IF Len(content) > 0 THEN <<[role |-> "user", content |-> content]>> ELSE <<>>

\* one iteration of the loop of anthropicMessagesFrom
anthropicTurns(m) ==
  IF m.role = "system" THEN <<>>
  ELSE IF m.role = "user" THEN anthropicUserTurn(m)
  ELSE IF m.role = "model"
    THEN <<[role |-> "assistant", content |-> flatMap(m.contents, anthropicModelBlock)]>>
  ELSE IF m.role = "tool" THEN anthropicToolTurn(m)
  ELSE <<>>

\* anthropicMessagesFrom(messages)
anthropicMessagesFrom(msgs) == flatMap(msgs, anthropicTurns)

\* ---- Ollama
RECURSIVE join(_)
join(texts) == IF texts = <<>> THEN "" ELSE Head(texts) \o join(Tail(texts))

textsOf(contents) ==
  LET cs == SelectSeq(contents, LAMBDA c : "text" \in DOMAIN c)
  IN  [i \in 1..Len(cs) |-> cs[i].text]

ollamaText(m) ==
  IF contentsIsString(m) THEN m.contentsString ELSE join(textsOf(m.contents))

ollamaToolCallsOf(contents) ==
  LET cs == SelectSeq(contents, IsToolCallContent)
  IN  [i \in 1..Len(cs) |->
         [function |-> [name |-> cs[i].toolCall.name,
                        arguments |-> IF Falsy(cs[i].toolCall.props)
                                        THEN EmptyObject ELSE cs[i].toolCall.props]]]

\* the role=tool message of one entry of a tool message
ollamaToolMessage(c) ==
  IF "toolResult" \in DOMAIN c
    THEN LET r == c.toolResult.result
             content ==
               IF Truthy(errorOf(r))
                 THEN IF typeofString(errorOf(r)) THEN errorOf(r).str
                                                  ELSE JSON_stringify(errorOf(r))
                 ELSE IF typeofString(outputOf(r)) THEN outputOf(r).str
                                                   ELSE JSON_stringify(outputOf(r))
         IN  <<[role |-> "tool", content |-> content, tool_name |-> c.toolResult.name]>>
    ELSE <<>>

\* one iteration of the loop of ollamaMessagesFrom
ollamaTurns(m) ==
  IF m.role = "system" THEN <<[role |-> "system", content |-> ollamaText(m)]>>
  ELSE IF m.role = "user" THEN <<[role |-> "user", content |-> ollamaText(m)]>>
  ELSE IF m.role = "model"
    THEN LET tcs == ollamaToolCallsOf(m.contents)
         IN  <<[role |-> "assistant", content |-> join(textsOf(m.contents)),
                tool_calls |-> IF Len(tcs) > 0 THEN Some(tcs) ELSE Absent]>>
  ELSE IF m.role = "tool" THEN flatMap(m.contents, ollamaToolMessage)
  ELSE <<>>

\* ollamaMessagesFrom(messages)
ollamaMessagesFrom(msgs) == flatMap(msgs, ollamaTurns)

\* ---- the requests
SystemOptions == {Undefined, "You are helpful."}

InitWire ==
  /\ wireAdapter \in {"anthropic", "ollama"}
  /\ conversation \in SeqsUpTo(WireMessages, MaxMessages)
  /\ systemOption \in SystemOptions
  /\ request = NoRequest
  /\ ctIdle /\ batchIdle /\ streamIdle /\ chunkIdle /\ regIdle /\ declIdle /\ hostIdle

\* AnthropicModel.generate / stream up to client.messages.create
AnthropicRequest ==
  /\ wireAdapter = "anthropic" /\ ~request.sent
  /\ request' = [sent |-> TRUE,
                 messages |-> anthropicMessagesFrom(conversation),
                 system |-> systemOption]
  /\ UNCHANGED <<wireAdapter, conversation, systemOption, ctVars, batchVars, streamVars,
                 chunkVars, regVars, declVars, hostVars>>

\* OllamaModel.generate / stream up to client.chat
OllamaRequest ==
  /\ wireAdapter = "ollama" /\ ~request.sent
  /\ request' = [sent |-> TRUE,
                 messages |-> (IF ~Falsy(systemOption)
                                 THEN <<[role |-> "system", content |-> systemOption]>>
                                 ELSE <<>>) \o ollamaMessagesFrom(conversation),
                 system |-> Undefined]
  /\ UNCHANGED <<wireAdapter, conversation, systemOption, ctVars, batchVars, streamVars,
                 chunkVars, regVars, declVars, hostVars>>

NextWire == AnthropicRequest \/ OllamaRequest

SpecWire == InitWire /\ [][NextWire]_vars

\* ------------------------------------------------------------------ claim C21

toolResultIds(contents) ==
  LET rs == SelectSeq(contents, IsToolResultContent)
  IN  [i \in 1..Len(rs) |-> rs[i].toolResult.id]

\* the turn a canonical message stands for on the Anthropic wire
expectedTurn(m) ==
  IF m.role = "user" THEN <<[role |-> "user"]>>
  ELSE IF m.role = "model" THEN <<[role |-> "assistant"]>>
  ELSE IF m.role = "tool" /\ Len(toolResultIds(m.contents)) > 0
    THEN <<[role |-> "user", tool_use_ids |-> toolResultIds(m.contents)]>>
  ELSE <<>>

isToolResultTurn(t) ==
  /\ "content" \in DOMAIN t
  /\ Len(t.content) > 0
  /\ t.content[1].type = "tool_result"

turnLabel(t) ==
  IF isToolResultTurn(t)
    THEN [role |-> t.role,
          tool_use_ids |-> [i \in 1..Len(t.content) |-> t.content[i].tool_use_id]]
    ELSE [role |-> t.role]

\* C21: anthropicMessagesFrom emits no turn for a system message, one user
\* turn per user message, one assistant turn per model message and one user
\* turn of tool_result blocks per tool message that holds a tool result
\* (tool_use_id = the result's id, in contents order), in the order of the
\* source messages.
C21_AnthropicTurns ==
  (wireAdapter = "anthropic" /\ request.sent) =>
    /\ [i \in 1..Len(request.messages) |-> turnLabel(request.messages[i])]
         = flatMap(conversation, expectedTurn)
    /\ \A i \in 1..Len(request.messages) :
         isToolResultTurn(request.messages[i]) =>
           \A j \in 1..Len(request.messages[i].content) :
             request.messages[i].content[j].type = "tool_result"

C21_Witness ==
  /\ wireAdapter = "anthropic" /\ request.sent
  /\ Len(conversation) = 2
  /\ conversation[1].role = "system"
  /\ conversation[2].role = "tool"
  /\ Len(request.messages) = 1
  /\ isToolResultTurn(request.messages[1])
  /\ Len(request.messages[1].content) = 2

\* ------------------------------------------------------------------ claim C22

systemText(m) == IF contentsIsString(m) THEN m.contentsString ELSE join(textsOf(m.contents))

Contains(text, part) ==
  \E i \in 1..(Len(text) - Len(part) + 1) : SubSeq(text, i, i + Len(part) - 1) = part

\* C22: the text of a system message of the conversation handed to
\* AnthropicModel.generate is in the system field of the request.
C22_SystemExtracted ==
  (wireAdapter = "anthropic" /\ request.sent) =>
    \A i \in 1..Len(conversation) :
      conversation[i].role = "system" =>
        Contains(request.system, systemText(conversation[i]))

\* ------------------------------------------------------------------ claim C23

\* the tool results of the conversation, in order
resultsOf(m) ==
  IF m.role = "tool"
    THEN LET rs == SelectSeq(m.contents, IsToolResultContent)
         IN  [i \in 1..Len(rs) |-> rs[i].toolResult.result]
    ELSE <<>>

renderValue(v) == IF typeofString(v) THEN v.str ELSE JSON_stringify(v)

\* the string the claim gives for a result
expectedRender(result) ==
  IF "error" \in DOMAIN result THEN renderValue(result.error)
                               ELSE renderValue(outputOf(result))

\* the strings sent for the tool results, in order
renderedOf(t) ==
  IF wireAdapter = "anthropic"
    THEN IF isToolResultTurn(t) THEN [i \in 1..Len(t.content) |-> t.content[i].content]
                                ELSE <<>>
    ELSE IF t.role = "tool" THEN <<t.content>> ELSE <<>>

\* C23: the string sent for a tool result is result.error when error is
\* present (as it is if a string, JSON-serialised otherwise), and result.output
\* rendered the same way when it is not.
C23_ResultRendering ==
  request.sent =>
    LET sent == flatMap(conversation, resultsOf)
    IN  flatMap(request.messages, renderedOf)
          = [i \in 1..Len(sent) |-> expectedRender(sent[i])]

\* the same for the Ollama adapter alone
OllamaResultRendering == wireAdapter = "ollama" => C23_ResultRendering

\* ------------------------------------------------------------------ claim C24

\* the function-call parts with a name, in order
namedCallParts(parts) == SelectSeq(parts, namedCall)

sentCallParts(parts) == SelectSeq(parts, LAMBDA part : "functionCall" \in DOMAIN part)

\* C24: the thoughtSignature received with a Gemini function call is the
\* reasoning of the ToolCallContent that messagesFrom builds, and
\* genAIPartFrom sends it back as the thoughtSignature of the function-call
\* part built for that ToolCallContent, with its id, name and args.
C24_ThoughtSignatureRoundTrip ==
  (adapter = "gemini" /\ resent.done /\ Len(converted.messages) = 1) =>
    LET got == namedCallParts(firstParts(response.candidates))
        kept == SelectSeq(converted.messages[1].contents, IsToolCallContent)
        sent == sentCallParts(resent.contents[1].parts)
    IN  /\ Len(kept) = Len(got) /\ Len(sent) = Len(got)
        /\ \A i \in 1..Len(got) :
             /\ kept[i].reasoning = got[i].thoughtSignature
             /\ sent[i].thoughtSignature = got[i].thoughtSignature
             /\ sent[i].functionCall.id = kept[i].toolCall.id
             /\ sent[i].functionCall.name = kept[i].toolCall.name
             /\ sent[i].functionCall.args = kept[i].toolCall.props
             /\ sent[i].functionCall.name = got[i].functionCall[1].name

C24_Witness ==
  /\ adapter = "gemini" /\ resent.done /\ Len(converted.messages) = 1
  /\ \E i \in 1..Len(resent.contents[1].parts) :
       LET part == resent.contents[1].parts[i]
       IN  /\ "functionCall" \in DOMAIN part
           /\ part.thoughtSignature = "sig"
           /\ part.functionCall.id = "c1"

\* ------------------------------------------------------------------ claim C27

\* C27: a snapshot the aggregator has yielded keeps the text and props it had
\* when it was yielded, whatever events are folded afterwards.
C27_HeldSnapshotKeepsContent == heldNow = heldAt

\* ------------------------------------------------------------------ claim C30

\* the next turn of the agent loop: the conversation callTool returned is
\* converted for the Anthropic request
SendToolMessage ==
  /\ pc = "done" /\ ~request.sent
  /\ request' = [sent |-> TRUE, messages |-> anthropicMessagesFrom(ret),
                 system |-> Undefined]
  /\ UNCHANGED <<wireAdapter, conversation, systemOption, ctVars, batchVars, streamVars,
                 chunkVars, regVars, declVars, hostVars>>

NextToolTurn == NextCallTool \/ SendToolMessage

SpecToolTurn == InitCallTool /\ [][NextToolTurn]_vars

\* C30: when the tool message callTool appended is converted by
\* anthropicMessagesFrom, the tool_result block of every failed call has
\* is_error set to true.
C30_FailureFlagged ==
  (request.sent /\ Len(results) > 0) =>
    LET turn == request.messages[Len(request.messages)]
    IN  \A k \in Recorded :
          Failed(k) =>
            /\ "is_error" \in DOMAIN turn.content[k]
            /\ turn.content[k].is_error

\* ---------------------------------------------------------------------------
\* cli tool (src/src/tools/cli/cli.ts)
\* ---------------------------------------------------------------------------

Commands == {"echo", "ls", "rm"}
ArgLists == {<<>>, <<"hello">>, <<"-rf", "/">>}
AllowLists == {<<>>, <<"echo">>, <<"echo", "ls">>}

\* allowedCommands.join(", ")
RECURSIVE joinWith(_, _)
joinWith(items, sep) ==
  IF items = <<>> THEN ""
  ELSE IF Len(items) = 1 THEN items[1]
  ELSE items[1] \o sep \o joinWith(Tail(items), sep)

isAllowedMutantAlways(allowed, command) == TRUE
\* allowedCommands.includes(command)
isAllowed(allowed, command) == \E i \in 1..Len(allowed) : allowed[i] = command

notAllowedMessage(allowed, command) ==
  "Command \"" \o command \o "\" is not allowed. Allowed commands: "
    \o joinWith(allowed, ", ")

InitCli ==
  /\ allowedCommands \in AllowLists
  /\ spawned = <<>>
  /\ cliCall = NoCliCall
  /\ nCliCalls = 0
  /\ fileIdle /\ wfIdle
  /\ ctIdle /\ batchIdle /\ streamIdle /\ chunkIdle /\ regIdle /\ declIdle /\ wireIdle

\* fn({command, args}) up to the await of cmd.output()
CliCall ==
  /\ nCliCalls < MaxCliCalls
  /\ cliCall.outcome # "running"
  /\ \E command \in Commands, args \in ArgLists :
       IF ~isAllowed(allowedCommands, command)
         THEN /\ cliCall' = [command |-> command, args |-> args, outcome |-> "rejected",
                             text |-> notAllowedMessage(allowedCommands, command)]
              /\ spawned' = spawned
         ELSE /\ cliCall' = [command |-> command, args |-> args, outcome |-> "running",
                             text |-> ""]
              /\ spawned' = Append(spawned, [command |-> command, args |-> args])
  /\ nCliCalls' = nCliCalls + 1
  /\ UNCHANGED <<allowedCommands, fileVars, wfVars, ctVars, batchVars, streamVars,
                 chunkVars, regVars, declVars, wireVars>>

\* cmd.output() resolves with {code, stdout, stderr}
CliExit ==
  /\ cliCall.outcome = "running"
  /\ \E code \in {0, 1}, output \in {"", "hello"}, error \in {"", "warn"} :
       cliCall' =
         IF code # 0
           THEN [cliCall EXCEPT !.outcome = "rejected",
                   !.text = IF error # "" THEN error
                            ELSE "Command exited with code " \o ToString(code)]
           ELSE [cliCall EXCEPT !.outcome = "resolved",
                   !.text = output \o (IF error # "" THEN "\n" \o error ELSE "")]
  /\ UNCHANGED <<allowedCommands, spawned, nCliCalls, fileVars, wfVars, ctVars, batchVars,
                 streamVars, chunkVars, regVars, declVars, wireVars>>

NextCli == CliCall \/ CliExit

SpecCli == InitCli /\ [][NextCli]_vars

\* ------------------------------------------------------------------ claim C25

\* C25: the cli tool spawns a process only for a command that is an element
\* of allowedCommands; a call with any other command rejects with the
\* 'not allowed' error and spawns nothing, whatever its args.
C25_OnlyAllowedSpawn ==
  [][ nCliCalls' = nCliCalls + 1 =>
        IF \E i \in 1..Len(allowedCommands) : allowedCommands[i] = cliCall'.command
          THEN spawned' = Append(spawned, [command |-> cliCall'.command,
                                           args |-> cliCall'.args])
          ELSE /\ spawned' = spawned
               /\ cliCall'.outcome = "rejected"
               /\ Contains(cliCall'.text, "is not allowed") ]_vars

C25_Witness ==
  /\ cliCall.outcome = "rejected"
  /\ cliCall.command = "rm" /\ cliCall.args = <<"-rf", "/">>
  /\ allowedCommands = <<"echo", "ls">>
  /\ Len(spawned) = 1

\* ---------------------------------------------------------------------------
\* edit_file tool, operation search_replace (src/src/tools/file/edit_file.ts)
\* ---------------------------------------------------------------------------

FileContents == {"ab", "abab", "aaa"}
Searches == {"", "a", "ab", "c"}
Replaces == {"", "x", "$$", "<$&>"}

\* text.indexOf(search, pos) with positions counted from 1; 0 when absent
indexOf(text, search, pos) ==
  LET hits == {i \in pos..(Len(text) - Len(search) + 1) :
                 SubSeq(text, i, i + Len(search) - 1) = search}
  IN  IF hits = {} THEN 0 ELSE CHOOSE i \in hits : \A j \in hits : i <= j

\* countOccurrences(text, search): the while loop from position pos
RECURSIVE countFrom(_, _, _)
countFrom(text, search, pos) ==
  LET found == indexOf(text, search, pos)
  IN  IF found = 0 THEN 0 ELSE 1 + countFrom(text, search, found + Len(search))

countOccurrences(text, search) ==
  IF Len(search) = 0 THEN 0 ELSE countFrom(text, search, 1)

\* the replacement text String.prototype.replace inserts for a string
\* pattern: $$ is a dollar sign, $& the match, $` and $' the text before and
\* after the match
RECURSIVE GetSubstitution(_, _, _, _)
GetSubstitution(matched, before, after, replacement) ==
  IF replacement = "" THEN ""
  ELSE LET c == SubSeq(replacement, 1, 1)
           d == IF Len(replacement) >= 2 THEN SubSeq(replacement, 2, 2) ELSE ""
           rest1 == SubSeq(replacement, 2, Len(replacement))
           rest2 == SubSeq(replacement, 3, Len(replacement))
       IN  IF c = "$" /\ d = "$"
             THEN "$" \o GetSubstitution(matched, before, after, rest2)
           ELSE IF c = "$" /\ d = "&"
             THEN matched \o GetSubstitution(matched, before, after, rest2)
           ELSE IF c = "$" /\ d = "`"
             THEN before \o GetSubstitution(matched, before, after, rest2)
           ELSE IF c = "$" /\ d = "'"
             THEN after \o GetSubstitution(matched, before, after, rest2)
           ELSE c \o GetSubstitution(matched, before, after, rest1)

\* fileContent.replace(props.search, props.replace)
replace(text, search, replacement) ==
  LET at == indexOf(text, search, 1)
  IN  IF at = 0 THEN text
      ELSE LET before == SubSeq(text, 1, at - 1)
               after == SubSeq(text, at + Len(search), Len(text))
           IN  before \o GetSubstitution(search, before, after, replacement) \o after

InitEdit ==
  /\ fileContent \in FileContents \cup {Undefined}
  /\ edit = NoEdit
  /\ nEdits = 0
  /\ cliIdle /\ wfIdle
  /\ ctIdle /\ batchIdle /\ streamIdle /\ chunkIdle /\ regIdle /\ declIdle /\ wireIdle

\* fn(props) with props.operation = "search_replace"
SearchReplace ==
  /\ nEdits < MaxEdits
  /\ \E search \in Searches, replacement \in Replaces :
       LET call == [search |-> search, replace |-> replacement, before |-> fileContent]
       IN  IF fileContent = Undefined
             THEN \* Deno.readTextFile throws NotFound, rethrown by the catch block
                  /\ edit' = call @@ [outcome |-> "rejected",
                                      text |-> "File not found: notes.txt"]
                  /\ fileContent' = fileContent
           ELSE LET occurrences == countOccurrences(fileContent, search)
                IN  IF occurrences = 0
                      THEN /\ edit' = call @@ [outcome |-> "rejected",
                                               text |-> "Text not found in file"]
                           /\ fileContent' = fileContent
                    ELSE IF occurrences > 1
                      THEN /\ edit' = call @@ [outcome |-> "rejected",
                                               text |-> "Found " \o ToString(occurrences)
                                                          \o " occurrences of the search text"]
                           /\ fileContent' = fileContent
                    ELSE /\ fileContent' = replace(fileContent, search, replacement)
                         /\ edit' = call @@ [outcome |-> "resolved",
                                             text |-> "Successfully replaced text in notes.txt"]
  /\ nEdits' = nEdits + 1
  /\ UNCHANGED <<cliVars, wfVars, ctVars, batchVars, streamVars, chunkVars, regVars,
                 declVars, wireVars>>

NextEdit == SearchReplace

SpecEdit == InitEdit /\ [][NextEdit]_vars

\* ------------------------------------------------------------------ claim C26

\* the old content with the occurrence at position at replaced by the text
spliced(text, at, search, replacement) ==
  SubSeq(text, 1, at - 1) \o replacement \o SubSeq(text, at + Len(search), Len(text))

\* C26: search_replace writes the file only when the search text occurs
\* exactly once: otherwise the call rejects and the content is unchanged, and
\* with one occurrence the new content is the old content with that
\* occurrence replaced by the replace text.
C26_ReplaceExactlyOne ==
  (edit.outcome # "none" /\ edit.before # Undefined) =>
    IF countOccurrences(edit.before, edit.search) = 1
      THEN /\ edit.outcome = "resolved"
           /\ fileContent = spliced(edit.before, indexOf(edit.before, edit.search, 1),
                                    edit.search, edit.replace)
      ELSE /\ edit.outcome = "rejected"
           /\ fileContent = edit.before

\* the same for replace texts without a dollar sign
LiteralReplaceExactlyOne == ~Contains(edit.replace, "$") => C26_ReplaceExactlyOne

\* ---------------------------------------------------------------------------
\* Workflow (src/src/workflow/mod.ts:19-54 and part_013:20-68)
\* ---------------------------------------------------------------------------

\* enum WorkflowStatus
CREATED == "Created"
RUNNING == "Running"
COMPLETED == "Completed"
FAILED == "Failed"

WorkflowImpls == {"workflow/mod.ts", "part_013"}

\* the state option of the constructor and the argument of start
StateOptions == {Undefined, "s0", "Running"}
StartArgs == {Undefined, "s1"}
StartErrors == {"step failed"}

\* the test at the head of call / #call: mod.ts compares #state, part_013
\* compares #status
isRunning(impl, state, current) ==
  IF impl = "workflow/mod.ts" THEN state = RUNNING ELSE current = RUNNING

statusAfterMutantAlwaysCompleted(settled) == COMPLETED
\* the assignment after the await: COMPLETED, or FAILED in the catch block
statusAfter(settled) == IF settled = "resolved" THEN COMPLETED ELSE FAILED

InitWorkflow ==
  /\ wfImpl \in WorkflowImpls
  /\ wfState \in StateOptions
  /\ wfStatus = CREATED
  /\ runs = <<>>
  /\ lastStart = NoStart
  /\ nStarts = 0
  /\ cliIdle /\ fileIdle
  /\ ctIdle /\ batchIdle /\ streamIdle /\ chunkIdle /\ regIdle /\ declIdle /\ wireIdle

\* start(state), through call / #call up to the await of #start.call
Start ==
  /\ nStarts < MaxStarts
  /\ nStarts' = nStarts + 1
  /\ \E state \in StartArgs :
       IF Falsy(wfState) /\ Falsy(state)
         THEN /\ lastStart' = [outcome |-> "threw", text |-> "State must be present"]
              /\ UNCHANGED <<wfStatus, runs>>
       ELSE IF isRunning(wfImpl, wfState, wfStatus)
         THEN /\ lastStart' = [outcome |-> "rejected",
                               text |-> "Workflow is currently running. Wait until finished."]
              /\ UNCHANGED <<wfStatus, runs>>
       ELSE /\ wfStatus' = RUNNING
            /\ runs' = Append(runs, [phase |-> "awaiting",
                                     state |-> IF Falsy(wfState) THEN state ELSE wfState,
                                     thrown |-> "", error |-> ""])
            /\ lastStart' = [outcome |-> "admitted", text |-> ""]
  /\ UNCHANGED <<wfImpl, wfState, cliVars, fileVars, ctVars, batchVars, streamVars,
                 chunkVars, regVars, declVars, wireVars>>

\* #start.call resolves: the run completes
Resolve(k) ==
  /\ k \in 1..Len(runs)
  /\ runs[k].phase = "awaiting"
  /\ runs' = [runs EXCEPT ![k].phase = "resolved"]
  /\ wfStatus' = statusAfter("resolved")
  /\ UNCHANGED <<wfImpl, wfState, lastStart, nStarts, cliVars, fileVars, ctVars, batchVars,
                 streamVars, chunkVars, regVars, declVars, wireVars>>

\* #start.call rejects with e: the catch block, which rethrows e
Reject(k) ==
  /\ k \in 1..Len(runs)
  /\ runs[k].phase = "awaiting"
  /\ \E e \in StartErrors :
       runs' = [runs EXCEPT ![k].phase = "rejected", ![k].thrown = e, ![k].error = e]
  /\ wfStatus' = statusAfter("rejected")
  /\ UNCHANGED <<wfImpl, wfState, lastStart, nStarts, cliVars, fileVars, ctVars, batchVars,
                 streamVars, chunkVars, regVars, declVars, wireVars>>

NextWorkflow ==
  \/ Start
  \/ \E k \in 1..MaxStarts + 1 : Resolve(k)
  \/ \E k \in 1..MaxStarts + 1 : Reject(k)

SpecWorkflow == InitWorkflow /\ [][NextWorkflow]_vars

\* ------------------------------------------------------------------ claim C28

awaiting == {k \in 1..Len(runs) : runs[k].phase = "awaiting"}

\* C28: in each Workflow implementation at most one run is in progress: a
\* start issued while a run awaits its start callable is rejected with
\* 'Workflow is currently running' and does not invoke the callable again.
C28_OneRunAtATime ==
  [][ (nStarts' = nStarts + 1 /\ awaiting # {}) =>
        /\ runs' = runs
        /\ lastStart'.outcome \in {"rejected", "threw"}
        /\ lastStart'.outcome = "rejected" =>
             Contains(lastStart'.text, "Workflow is currently running") ]_vars

\* the same for the Workflow of part_013 alone
OneRunAtATimeWithStatusGetter ==
  [][ wfImpl = "part_013" =>
        ((nStarts' = nStarts + 1 /\ awaiting # {}) =>
           /\ runs' = runs
           /\ lastStart'.outcome \in {"rejected", "threw"}
           /\ lastStart'.outcome = "rejected" =>
                Contains(lastStart'.text, "Workflow is currently running")) ]_vars

\* ------------------------------------------------------------------ claim C29

\* C29: for the Workflow with a status getter, status is CREATED until the
\* first admitted start, RUNNING while the admitted run is in progress, then
\* COMPLETED if the start callable resolved and FAILED if it rejected, the
\* rejection being the callable's; a start that is rejected leaves status
\* unchanged.
C29_StatusFollowsRun ==
  [][ wfImpl = "part_013" =>
        /\ (runs' = <<>>) => wfStatus' = CREATED
        /\ (runs' # <<>> /\ runs'[Len(runs')].phase = "awaiting") => wfStatus' = RUNNING
        /\ (runs' # <<>> /\ runs'[Len(runs')].phase = "resolved") => wfStatus' = COMPLETED
        /\ (runs' # <<>> /\ runs'[Len(runs')].phase = "rejected") =>
             /\ wfStatus' = FAILED
             /\ runs'[Len(runs')].error = runs'[Len(runs')].thrown
        /\ (nStarts' = nStarts + 1 /\ lastStart'.outcome # "admitted") =>
             wfStatus' = wfStatus ]_vars

C29_Witness ==
  /\ wfImpl = "part_013"
  /\ Len(runs) = 2
  /\ runs[1].phase = "rejected" /\ runs[2].phase = "resolved"
  /\ wfStatus = COMPLETED
  /\ lastStart.outcome = "rejected"

====
